---- MODULE Spec2Model ----
(***************************************************************************)
(* A model of the delivery-boy peer-to-peer client.                        *)
(*                                                                         *)
(* Part 1: the lifecycle of Client (src/lib/client/client.ts): start(),    *)
(*         stop(), toggle() and the events of the listening Net.Server.    *)
(* Part 2: the handshake between Client.handleNewConnection (listener)     *)
(*         and Client.connectTo (connector) over one raw byte stream.      *)
(*                                                                         *)
(* JavaScript runs every handler to completion, so one action is one       *)
(* handler: a call of a public method, or one callback of the event loop.  *)
(***************************************************************************)
EXTENDS Naturals, Integers, Sequences, FiniteSets, TLC

(***************************************************************************)
(* Bounds of the model.                                                    *)
(***************************************************************************)
MaxCalls == 3        \* calls of start()/stop()/toggle() in one behaviour
MaxServers == 2      \* Net.Server objects created by start() in one behaviour
MaxErrors == 1       \* 'error' events a listening server emits (accept errors)
MaxConns == 1        \* connections made to the listener in one behaviour
PwdSize == 1         \* config.security.passwords.size, in bytes
MaxWrites == 2       \* calls of write() on a channel
MaxReads == 2        \* calls of read() on a channel
MaxInjects == 1      \* messages a peer that is not this program sends
MaxAccesses == 3     \* calls of downloads()/library() on one client
MaxListCalls == 3    \* calls of items()/addByLink() on one DownloadList
MaxFsErrors == 1     \* file-system operations of a DownloadList that fail
MaxFaultBlocks == 2  \* blocks of the largest data file whose creation is
                     \* explored with failing file-system operations
MaxItems == 2        \* items a list holds when it is disposed
MaxDisposals == 2    \* calls of dispose() on one object
MaxHashCalls == 3    \* calls of hash() on one library item
MaxFileChanges == 1  \* changes of the file of a library item
MaxNameLen == 2      \* characters of a file name
MaxShares == 3       \* entries of a configured list of share folders
MaxScanCalls == 3    \* calls of items() on one library collection
MaxConnects == 2     \* calls of connect() on one DeliveryBoy
MaxMessages == 2     \* calls of sendMessage()/readMessage() on one socket
MaxStrays == 1       \* messages a peer sends that are no hello message
MaxFrames == 2       \* calls of a method that calls itself which the stack holds
MaxStartStops == 4   \* calls of start()/stop() on one DeliveryBoy

(***************************************************************************)
(* Program constants.                                                      *)
(***************************************************************************)
CLIENT_STATE_STARTING == 1
CLIENT_STATE_RUNNING == 2
CLIENT_STATE_STOPPING == 3
CLIENT_STATE_STOPPED == 4
MAX_MSG_LENGTH == 16777215
BLOCK_SIZE == 81920      \* bytes addByLink writes to a data file at once
CHUNK_SIZE == 9728000    \* bytes of a file one chunk descriptor stands for

ClientStates ==
    {CLIENT_STATE_STARTING, CLIENT_STATE_RUNNING, CLIENT_STATE_STOPPING, CLIENT_STATE_STOPPED}

\* null / undefined of a field that holds an object
Null == 0

VARIABLES
    _state,      \* Client._state
    _server,     \* Client._server: Null or the id of a Net.Server
    _key,        \* Client._key: Null or the id of the key pair (the id of the
                 \* server whose 'listening' callback generated it)
    config,      \* Client._config, as far as the lifecycle reads it
    servers,     \* the Net.Server objects start() created: status, the start()
                 \* call whose `completed` its handlers hold, the stop() call
                 \* whose `completed` its close callback holds
    calls,       \* the calls of start()/stop()/toggle() made so far and what
                 \* their callbacks received
    nerrors,     \* number of 'error' events emitted by listening servers
    handler,     \* the handler that ran last
    trace,       \* what the handler that ran last raised and called, in order
    conns,       \* the connections made to the listener: both sockets of each,
                 \* the position of handleNewConnection and of connectTo on it,
                 \* and the history of the handshake
    sender,      \* an established channel, the side that writes: its socket,
                 \* the calls of write() and the writes queued on the socket
    receiver,    \* the same channel, the side that reads: its socket and the
                 \* calls of read()
    _downloads,  \* Client._downloads: Null or the id of a DownloadList
    _library,    \* Client._library: Null or the id of a FileLibrary
    accessors,   \* the calls of downloads()/library() and what their callbacks
                 \* got; the DownloadList and FileLibrary objects constructed
    tempDir,     \* what config.folders.temp names in the file system
    _items,      \* DownloadList._items: undefined, or the items in order
    disk,        \* the files in DownloadList._DIR: the length of each, how
                 \* it was written, and what a metadata file says
    listCalls,   \* the calls of items()/addByLink() on the DownloadList,
                 \* the position of each and what its callback got
    disposal,    \* a disposable object (objects.ts, factory.ts) and the
                 \* objects it owns: fields, pending promises, notifications
    hashItem,    \* a FileLibraryCollectionItem and its file
    collection,  \* a FileLibraryCollection and its directory tree
    probe,       \* the argument and the result of a function applied once
    dboy,        \* a DeliveryBoy (index.ts) and its calls of connect()
    pair         \* the two Connection objects (connection.ts) of one socket,
                 \* the messages on their way and the calls on either

lifeVars == <<_state, _server, _key, config, servers, calls, nerrors, handler, trace>>

chanVars == <<sender, receiver>>

accVars == <<_downloads, _library, accessors, tempDir>>

listVars == <<_items, disk, listCalls>>

baseVars == <<lifeVars, conns, chanVars, accVars, listVars>>

vars == <<baseVars, disposal, hashItem, collection, probe, dboy, pair>>

\* the objects of the later parts, which the parts before them leave alone
laterVars == <<disposal, hashItem, collection, probe, dboy, pair>>

\* what the lifecycle, the handshake, a channel, the lazy accessors, a
\* download list, and each of the later parts leave alone
outsideLife == <<conns, chanVars, accVars, listVars, laterVars>>

outsideHandshake == <<lifeVars, chanVars, accVars, listVars, laterVars>>

outsideChannel == <<lifeVars, conns, accVars, listVars, laterVars>>

outsideAccessors == <<lifeVars, conns, chanVars, listVars, laterVars>>

outsideList == <<lifeVars, conns, chanVars, accVars, laterVars>>

outsideDisposal == <<baseVars, hashItem, collection, probe, dboy, pair>>

outsideHashItem == <<baseVars, disposal, collection, probe, dboy, pair>>

outsideCollection == <<baseVars, disposal, hashItem, probe, dboy, pair>>

outsideProbe == <<baseVars, disposal, hashItem, collection, dboy, pair>>

outsideDboy == <<baseVars, disposal, hashItem, collection, probe, pair>>

outsidePair == <<baseVars, disposal, hashItem, collection, probe, dboy>>

ServerIds == 1..MaxServers

\* a 'state' property-changed notification; val is what a handler reading
\* client.state sees while the notification is being raised
StateEv(val) == [ev |-> "state", call |-> 0, err |-> FALSE, val |-> val]

\* an invocation of the callback of call c
CbEv(c, err, val) == [ev |-> "cb", call |-> c, err |-> err, val |-> val]

\* the calls with one more call of operation op, issued in state _state
NewCall(op) == Append(calls, [op |-> op, at |-> _state, cbs |-> <<>>])

\* callback(err) / callback(null) of call c, invoked while the state is st
Completed(cs, c, err, st) ==
    [cs EXCEPT ![c].cbs = Append(@, [err |-> err, st |-> st])]

NoServer == [status |-> "none", startCall |-> 0, stopCall |-> 0, closeErr |-> FALSE]

\* no channel yet
NoSender == [pwd |-> <<>>, destroyed |-> FALSE, calls |-> <<>>, queue |-> <<>>]

NoReceiver ==
    [pwd |-> <<>>, inBuf |-> <<>>, ended |-> FALSE, destroyed |-> FALSE,
     reads |-> <<>>, injected |-> 0]

\* the fields of a client just constructed (46-50), no call made
NoAccess ==
    /\ _downloads = Null
    /\ _library = Null
    /\ accessors = [calls |-> <<>>, lists |-> 0, libraries |-> 0]

\* DownloadList._items before items() assigned it (downloads.ts 32, 40-45)
UndefinedItems == [undefined |-> TRUE, list |-> <<>>]

\* a DownloadList just constructed over an empty directory, no call made
NoList ==
    /\ _items = UndefinedItems
    /\ disk = {}
    /\ listCalls = <<>>

\* none of the objects of the later parts constructed
NoLater ==
    /\ pair = Null
    /\ disposal = Null
    /\ hashItem = Null
    /\ collection = Null
    /\ probe = Null
    /\ dboy = Null

\* the client after its constructor (46-74)
StoppedClient ==
    /\ _state = CLIENT_STATE_STOPPED
    /\ _server = Null
    /\ _key = Null
    /\ config \in [keySizeValid : BOOLEAN]
    /\ servers = [s \in ServerIds |-> NoServer]
    /\ calls = <<>>
    /\ nerrors = 0
    /\ handler = "constructor"
    /\ trace = <<>>

LifeInit ==
    /\ StoppedClient
    /\ conns = <<>>
    /\ sender = NoSender
    /\ receiver = NoReceiver
    /\ NoAccess
    /\ tempDir = "dir"
    /\ NoList
    /\ NoLater


(***************************************************************************)
(* Client.start (client.ts 449-520)                                        *)
(***************************************************************************)

\* the Net.Server object `Net.createServer` returns next
FreshServer == CHOOSE s \in ServerIds : servers[s].status = "none" /\
                   \A r \in ServerIds : servers[r].status = "none" => s <= r

\* case STARTING / STOPPING: `this.start(callback)` calls itself again at once,
\* in the same turn of the event loop, so the state it re-reads never changes;
\* the recursion ends in a RangeError (stack overflow) that the try/catch of an
\* inner frame hands to completed(e)
StartWhileTransitioning(c, cs) ==
    /\ calls' = Completed(cs, c, TRUE, _state)
    /\ trace' = <<CbEv(c, TRUE, _state)>>
    /\ UNCHANGED <<_state, _server, _key, servers>>

\* case STOPPED: state = STARTING, raise, create the server, register the
\* 'error' handler and listen(port, callback)
StartWhenStopped(c, cs) ==
    /\ \E s \in ServerIds : servers[s].status = "none"
    /\ _state' = CLIENT_STATE_STARTING
    /\ trace' = <<StateEv(CLIENT_STATE_STARTING)>>
    /\ servers' = [servers EXCEPT ![FreshServer] =
                      [status |-> "binding", startCall |-> c, stopCall |-> 0,
                       closeErr |-> FALSE]]
    /\ calls' = cs
    /\ UNCHANGED <<_server, _key>>

\* mutation of StartWhenRunning: the `break` after completed() is missing and
\* control falls through into the STOPPED case
StartWhenRunning_FallThrough(c, cs) ==
    StartWhenStopped(c, Completed(cs, c, FALSE, _state))

\* case RUNNING: completed()
StartWhenRunning(c, cs) ==
    /\ calls' = Completed(cs, c, FALSE, _state)
    /\ trace' = <<CbEv(c, FALSE, _state)>>
    /\ UNCHANGED <<_state, _server, _key, servers>>

StartBody(c, cs) ==
    CASE _state \in {CLIENT_STATE_STARTING, CLIENT_STATE_STOPPING} ->
             StartWhileTransitioning(c, cs)
      [] _state = CLIENT_STATE_RUNNING -> StartWhenRunning(c, cs)
      [] _state = CLIENT_STATE_STOPPED -> StartWhenStopped(c, cs)

(***************************************************************************)
(* Client.stop (client.ts 528-589)                                         *)
(***************************************************************************)

\* case STARTING / STOPPING: `me.stop(callback)`, the same recursion as in start
StopWhileTransitioning(c, cs) ==
    /\ calls' = Completed(cs, c, TRUE, _state)
    /\ trace' = <<CbEv(c, TRUE, _state)>>
    /\ UNCHANGED <<_state, _server, _key, servers>>

\* oldServer.close(cb): a listening server closes its handle and calls cb
\* without error once its 'close' event is emitted; a server that is not
\* listening calls cb with an error
ServerClose(s, c) ==
    [servers EXCEPT ![s] =
        IF @.status = "listening"
        THEN [@ EXCEPT !.status = "closing", !.stopCall = c, !.closeErr = FALSE]
        ELSE [@ EXCEPT !.stopCall = c, !.closeErr = TRUE]]

\* case RUNNING: state = STOPPING, raise, close the server if there is one
StopWhenRunning(c, cs) ==
    /\ _state' = CLIENT_STATE_STOPPING
    /\ IF _server # Null
       THEN /\ servers' = ServerClose(_server, c)
            /\ calls' = cs
            /\ trace' = <<StateEv(CLIENT_STATE_STOPPING)>>
       ELSE /\ servers' = servers
            /\ calls' = Completed(cs, c, FALSE, CLIENT_STATE_STOPPING)
            /\ trace' = <<StateEv(CLIENT_STATE_STOPPING),
                          CbEv(c, FALSE, CLIENT_STATE_STOPPING)>>
    /\ UNCHANGED <<_server, _key>>

\* case STOPPED: completed(null)
StopWhenStopped(c, cs) ==
    /\ calls' = Completed(cs, c, FALSE, _state)
    /\ trace' = <<CbEv(c, FALSE, _state)>>
    /\ UNCHANGED <<_state, _server, _key, servers>>

StopBody(c, cs) ==
    CASE _state \in {CLIENT_STATE_STARTING, CLIENT_STATE_STOPPING} ->
             StopWhileTransitioning(c, cs)
      [] _state = CLIENT_STATE_RUNNING -> StopWhenRunning(c, cs)
      [] _state = CLIENT_STATE_STOPPED -> StopWhenStopped(c, cs)

(***************************************************************************)
(* Client.toggle (client.ts 592-613)                                       *)
(***************************************************************************)

\* default: invokeCallback(callback, new Error("Cannot toggle client state"))
ToggleRejected(c, cs) ==
    /\ calls' = Completed(cs, c, TRUE, _state)
    /\ trace' = <<CbEv(c, TRUE, _state)>>
    /\ UNCHANGED <<_state, _server, _key, servers>>

\* mutation of ToggleBody: the two cases are swapped
ToggleBody_Swapped(c, cs) ==
    CASE _state = CLIENT_STATE_RUNNING -> StartBody(c, cs)
      [] _state = CLIENT_STATE_STOPPED -> StopBody(c, cs)
      [] OTHER -> ToggleRejected(c, cs)

ToggleBody(c, cs) ==
    CASE _state = CLIENT_STATE_RUNNING -> StopBody(c, cs)
      [] _state = CLIENT_STATE_STOPPED -> StartBody(c, cs)
      [] OTHER -> ToggleRejected(c, cs)

(***************************************************************************)
(* The calls of the public methods                                         *)
(***************************************************************************)
Start ==
    /\ Len(calls) < MaxCalls
    /\ StartBody(Len(calls) + 1, NewCall("start"))
    /\ handler' = "start"
    /\ UNCHANGED <<config, nerrors, outsideLife>>

Stop ==
    /\ Len(calls) < MaxCalls
    /\ StopBody(Len(calls) + 1, NewCall("stop"))
    /\ handler' = "stop"
    /\ UNCHANGED <<config, nerrors, outsideLife>>

Toggle ==
    /\ Len(calls) < MaxCalls
    /\ ToggleBody(Len(calls) + 1, NewCall("toggle"))
    /\ handler' = "toggle"
    /\ UNCHANGED <<config, nerrors, outsideLife>>

(***************************************************************************)
(* The events of a server created by start()                               *)
(***************************************************************************)

\* mutation of ListenCallback: completed() is called before the new state is
\* stored and notified
ListenCallback_CallbackFirst(s) ==
    LET c == servers[s].startCall IN
    /\ _key' = s
    /\ _server' = s
    /\ _state' = CLIENT_STATE_RUNNING
    /\ trace' = <<CbEv(c, FALSE, _state), StateEv(CLIENT_STATE_RUNNING)>>
    /\ calls' = Completed(calls, c, FALSE, _state)

\* the callback of newServer.listen (client.ts 489-509): the key pair is
\* generated inside runInBackground, which runs it at once (helpers.ts 95-108);
\* generateKeyPair throws for a key size it does not accept
ListenCallback(s) ==
    LET c == servers[s].startCall IN
    IF config.keySizeValid
    THEN /\ _key' = s
         /\ _server' = s
         /\ _state' = CLIENT_STATE_RUNNING
         /\ trace' = <<StateEv(CLIENT_STATE_RUNNING), CbEv(c, FALSE, CLIENT_STATE_RUNNING)>>
         /\ calls' = Completed(calls, c, FALSE, CLIENT_STATE_RUNNING)
    ELSE /\ trace' = <<CbEv(c, TRUE, _state)>>
         /\ calls' = Completed(calls, c, TRUE, _state)
         /\ UNCHANGED <<_key, _server, _state>>

\* the handler of newServer.on('error') (client.ts 483-488)
ServerErrorHandler(s) ==
    LET c == servers[s].startCall IN
    /\ _state' = CLIENT_STATE_STOPPED
    /\ trace' = <<StateEv(CLIENT_STATE_STOPPED), CbEv(c, TRUE, CLIENT_STATE_STOPPED)>>
    /\ calls' = Completed(calls, c, TRUE, CLIENT_STATE_STOPPED)
    /\ UNCHANGED <<_key, _server>>

\* mutation of CloseCallback: the test of err is inverted
CloseCallback_InvertedErr(s) ==
    LET c == servers[s].stopCall
        err == servers[s].closeErr
        newState == IF err THEN CLIENT_STATE_STOPPED ELSE CLIENT_STATE_RUNNING
    IN
    /\ IF err
       THEN _server' = Null /\ _key' = Null
       ELSE UNCHANGED <<_server, _key>>
    /\ _state' = newState
    /\ trace' = <<StateEv(newState), CbEv(c, err, newState)>>
    /\ calls' = Completed(calls, c, err, newState)

\* the callback of oldServer.close (client.ts 554-570)
CloseCallback(s) ==
    LET c == servers[s].stopCall
        err == servers[s].closeErr
        newState == IF ~err THEN CLIENT_STATE_STOPPED ELSE CLIENT_STATE_RUNNING
    IN
    /\ IF ~err
       THEN _server' = Null /\ _key' = Null
       ELSE UNCHANGED <<_server, _key>>
    /\ _state' = newState
    /\ trace' = <<StateEv(newState), CbEv(c, err, newState)>>
    /\ calls' = Completed(calls, c, err, newState)

\* the port is bound: no other server of this process holds it
Listening(s) ==
    /\ servers[s].status = "binding"
    /\ \A r \in ServerIds : servers[r].status # "listening"
    /\ servers' = [servers EXCEPT ![s].status = "listening"]
    /\ ListenCallback(s)
    /\ handler' = "listening"
    /\ UNCHANGED <<config, nerrors, outsideLife>>

\* binding fails (EADDRINUSE, EACCES): 'error' is emitted instead of 'listening'
ListenError(s) ==
    /\ servers[s].status = "binding"
    /\ servers' = [servers EXCEPT ![s].status = "failed"]
    /\ ServerErrorHandler(s)
    /\ handler' = "listenError"
    /\ UNCHANGED <<config, nerrors, outsideLife>>

\* a listening server emits 'error' when accepting a connection fails (EMFILE);
\* the server keeps listening
AcceptError(s) ==
    /\ servers[s].status = "listening"
    /\ nerrors < MaxErrors
    /\ nerrors' = nerrors + 1
    /\ ServerErrorHandler(s)
    /\ handler' = "acceptError"
    /\ UNCHANGED <<config, servers, outsideLife>>

\* 'close' is emitted for a server on which close(cb) was called
Closed(s) ==
    /\ servers[s].stopCall # 0
    /\ servers' = [servers EXCEPT ![s] =
                      [@ EXCEPT !.status = IF @ = "closing" THEN "closed" ELSE @,
                                !.stopCall = 0]]
    /\ CloseCallback(s)
    /\ handler' = "close"
    /\ UNCHANGED <<config, nerrors, outsideLife>>

LifeNext ==
    \/ Start
    \/ Stop
    \/ Toggle
    \/ \E s \in ServerIds : Listening(s)
    \/ \E s \in ServerIds : ListenError(s)
    \/ \E s \in ServerIds : AcceptError(s)
    \/ \E s \in ServerIds : Closed(s)


(***************************************************************************)
(* Client.whenRunningOrStopped (client.ts 690-715)                         *)
(***************************************************************************)

\* invokeCallback(callback) (objects.ts 129-138) n times in a row
InvokedAgain(c, n) == [k \in 1..n |-> CbEv(c, FALSE, _state)]

\* case RUNNING / STOPPED: invokeCallback(callback) and break (696-697), then
\* the statement after the switch: invokeCallback(callback) (710).
\* case STARTING / STOPPING: `this.whenRunningOrStopped(callback)` (701) calls
\* itself in the same turn, so the state it re-reads never changes; the call
\* the stack has no room for throws a RangeError, the catch of the frame that
\* made it hands the error to the callback (713) and returns, and every frame
\* below it goes on after its switch: invokeCallback(callback) (710)
WhenRunningOrStoppedBody(c, cs) ==
    LET invoked == IF _state \in {CLIENT_STATE_RUNNING, CLIENT_STATE_STOPPED}
                   THEN InvokedAgain(c, 2)
                   ELSE <<CbEv(c, TRUE, _state)>> \o InvokedAgain(c, MaxFrames - 1)
    IN
    /\ trace' = invoked
    /\ calls' = [cs EXCEPT ![c].cbs =
                     [k \in 1..Len(invoked) |-> [err |-> invoked[k].err, st |-> _state]]]
    /\ UNCHANGED <<_state, _server, _key, servers>>

WhenRunningOrStopped ==
    /\ Len(calls) < MaxCalls
    /\ WhenRunningOrStoppedBody(Len(calls) + 1, NewCall("whenRunningOrStopped"))
    /\ handler' = "whenRunningOrStopped"
    /\ UNCHANGED <<config, nerrors, outsideLife>>

WaitingNext ==
    \/ LifeNext
    \/ WhenRunningOrStopped

SpecWaiting == LifeInit /\ [][WaitingNext]_vars


(***************************************************************************)
(* Part 2: the handshake.  Bytes, keys and ciphers.                        *)
(***************************************************************************)
ConnIds == 1..MaxConns

\* Buffer.writeUInt32LE / Buffer.readUInt32LE
WriteUInt32LE(n) ==
    <<n % 256, (n \div 256) % 256, (n \div 65536) % 256, (n \div 16777216) % 256>>

ReadUInt32LE(b) == b[1] + 256 * b[2] + 65536 * b[3] + 16777216 * b[4]

\* the bytes dboy_helpers.randomBuffer(size) can return (two values per byte
\* stand for the 256)
PwdBytes == {7, 9}

Passwords == [1..PwdSize -> PwdBytes]

\* Client.exportRawKey: the body of the PKCS#1 public key of key pair k (the
\* PEM without its first and last line, base64-decoded); undefined without key
ExportRawKey(k) == IF k = Null THEN <<>> ELSE <<48, k>>

\* connectTo 134-141: the PEM is rebuilt around the received bytes and imported;
\* Null stands for importKey throwing
ImportKey(buf) ==
    IF Len(buf) = 2 /\ buf[1] = 48 /\ buf[2] \in ServerIds THEN buf[2] ELSE Null

\* key.encrypt(pwd) with the public key of pair k
RsaEncrypt(k, data) == <<k>> \o [i \in 1..Len(data) |-> (data[i] + k) % 256]

\* key.decrypt(buff) with the private key of pair k: throws unless buff was
\* encrypted with the public key of the same pair
RsaDecrypt(k, buf) ==
    IF Len(buf) >= 1 /\ buf[1] = k
    THEN [ok |-> TRUE, data |-> [i \in 1..(Len(buf) - 1) |-> (buf[i + 1] + 256 - k) % 256]]
    ELSE [ok |-> FALSE, data |-> <<>>]

RECURSIVE SumBytes(_)
SumBytes(b) == IF b = <<>> THEN 0 ELSE b[1] + SumBytes(Tail(b))

\* Crypto.createCipher('aes-256-ctr', pwd): a stream cipher, the key stream
\* derived from the password alone; the output has the length of the input
Cipher(pwd, data) ==
    [i \in 1..Len(data) |-> (data[i] + SumBytes(pwd) + i) % 256]

Decipher(pwd, data) ==
    [i \in 1..Len(data) |-> (data[i] + 512 - ((SumBytes(pwd) + i) % 256)) % 256]

\* JSON.stringify of a message {type: t}: '{', the type, '}'
JsonStringify(msg) == <<123, msg.type, 125>>

\* JSON.parse: throws on anything that is not a message
JsonParse(buf) ==
    IF Len(buf) = 3 /\ buf[1] = 123 /\ buf[3] = 125
    THEN [ok |-> TRUE, type |-> buf[2]]
    ELSE [ok |-> FALSE, type |-> 0]

\* socket.read(n) on a socket whose read buffer holds buf, ended telling that
\* the peer's FIN has arrived: n buffered bytes, or what is left once the
\* stream has ended, or null
SocketRead(buf, ended, n) ==
    IF n >= 1 /\ Len(buf) >= n
    THEN [got |-> TRUE, data |-> SubSeq(buf, 1, n), rest |-> SubSeq(buf, n + 1, Len(buf))]
    ELSE IF n >= 1 /\ ended /\ Len(buf) >= 1
         THEN [got |-> TRUE, data |-> buf, rest |-> <<>>]
         ELSE [got |-> FALSE, data |-> <<>>, rest |-> buf]

\* one connection: kind tells who talks to whom ("client": connectTo of this
\* program to the listener of this program, "rogue": another program to the
\* listener of this program, "outbound": connectTo of this program to the
\* listener of another program); l* is the accepted socket and the position of
\* handleNewConnection, c* the connecting socket and the position of
\* connectTo, cMsg the decrypted payload of the frame connectTo read after the
\* password, oSent the number of messages the other program's listener sent
NewConn(kind) ==
    [kind |-> kind,
     lpc |-> IF kind = "outbound" THEN "foreign" ELSE "pending", lIn |-> <<>>, lEnd |-> FALSE, lOut |-> <<>>, lNext |-> <<>>,
     lClosed |-> FALSE, lKey |-> Null, lWrites |-> 0, lWriteErr |-> FALSE,
     lLenBuf |-> <<>>, lEncBuf |-> <<>>, lChan |-> <<>>, lRaised |-> <<>>,
     rejected |-> FALSE,
     cpc |-> IF kind = "rogue" THEN "rogue" ELSE "connecting",
     cIn |-> <<>>, cEnd |-> FALSE, cOut |-> <<>>, cNext |-> <<>>,
     cDestroyed |-> FALSE, cKey |-> Null, cPwd |-> <<>>, cChan |-> <<>>,
     cLenBuf |-> <<>>, cMsg |-> <<>>, cbs |-> <<>>, oSent |-> 0,
     hist |-> <<>>]

Note(r, e) == [r EXCEPT !.hist = Append(@, e)]

(***************************************************************************)
(* Client.handleNewConnection (client.ts 308-408)                          *)
(***************************************************************************)

\* closeSocket: conn.close() destroys the socket (sockets.ts 49-62); the peer
\* sees the end of the stream
CloseSocket(r) ==
    [r EXCEPT !.lpc = "closed", !.lClosed = TRUE, !.lOut = <<>>, !.lNext = <<>>,
              !.cEnd = TRUE]

\* conn.write(buffer, cb) (sockets.ts 93-99): the buffer is handed to the
\* socket; cb runs in a later turn
ListenerWrite(r, buf, pc) ==
    [r EXCEPT !.lOut = buf, !.lpc = pc, !.lWrites = @ + 1]

\* sendOK(clientConn, cb) writes the message {type: 0} on the channel;
\* CryptedClientConnection.write (836-889) encrypts it with the key of the
\* channel and sends the length of the encrypted message first
SendOK(r) ==
    LET crypted == Cipher(r.lChan, JsonStringify([type |-> 0])) IN
    ListenerWrite([r EXCEPT !.lNext = crypted], WriteUInt32LE(Len(crypted)), "wOkLen")

\* mutation of DecryptAndSendOK: 'connected' is raised as soon as the password
\* is decrypted, without waiting for the callback of sendOK
DecryptAndSendOK_ConnectedEarly(r, buff) ==
    LET d == RsaDecrypt(r.lKey, buff) IN
    IF ~d.ok
    THEN CloseSocket(r)
    ELSE SendOK([Note(Note(r, "L_recvPwd"), "L_connected") EXCEPT
                    !.lChan = d.data, !.lRaised = Append(@, "connected")])

\* mutation of DecryptAndSendOK: the channel is keyed by the encrypted buffer
\* instead of the decrypted password
DecryptAndSendOK_KeyedByCiphertext(r, buff) ==
    LET d == RsaDecrypt(r.lKey, buff) IN
    IF ~d.ok
    THEN CloseSocket(r)
    ELSE SendOK([Note(r, "L_recvPwd") EXCEPT !.lChan = buff])

\* 386-403: decrypt the password with the key read when the connection was
\* accepted, build the channel on it, sendOK(clientConn, cb)
DecryptAndSendOK(r, buff) ==
    LET d == RsaDecrypt(r.lKey, buff) IN
    IF ~d.ok
    THEN CloseSocket(r)
    ELSE SendOK([Note(r, "L_recvPwd") EXCEPT !.lChan = d.data])

\* 375-404: the callback of conn.read(dataLength)
ReadPassword(r) ==
    LET dataLength == ReadUInt32LE(r.lLenBuf)
        b == SocketRead(r.lIn, r.lEnd, dataLength)
    IN
    IF ~b.got
    THEN r
    ELSE LET r1 == [r EXCEPT !.lIn = b.rest, !.lEncBuf = b.data] IN
         IF dataLength # Len(b.data)
         THEN CloseSocket(r1)
         ELSE DecryptAndSendOK(r1, b.data)

\* mutation of ReadPasswordLength: the test `dataLength < 1` is missing
ReadPasswordLength_AcceptsZero(r) ==
    LET b == SocketRead(r.lIn, r.lEnd, 4) IN
    IF ~b.got
    THEN r
    ELSE LET r1 == [r EXCEPT !.lIn = b.rest, !.lLenBuf = b.data] IN
         IF 4 # Len(b.data)
         THEN CloseSocket(r1)
         ELSE IF ReadUInt32LE(b.data) > MAX_MSG_LENGTH
              THEN CloseSocket(r1)
              ELSE ReadPassword([r1 EXCEPT !.lpc = "rPwd"])

\* 357-373: the callback of conn.read(4)
ReadPasswordLength(r) ==
    LET b == SocketRead(r.lIn, r.lEnd, 4) IN
    IF ~b.got
    THEN r
    ELSE LET r1 == [r EXCEPT !.lIn = b.rest, !.lLenBuf = b.data] IN
         IF 4 # Len(b.data)
         THEN CloseSocket(r1)
         ELSE IF ReadUInt32LE(b.data) < 1 \/ ReadUInt32LE(b.data) > MAX_MSG_LENGTH
              THEN CloseSocket(r1)
              ELSE ReadPassword([r1 EXCEPT !.lpc = "rPwd"])

\* SocketConnection.read (sockets.ts 71-90) where the listener waits
ListenerRead(r) ==
    IF r.lpc = "rLen" THEN ReadPasswordLength(r) ELSE ReadPassword(r)

\* mutation of HandleNewConnection: connectingEventArgs.close is not looked at
HandleNewConnection_IgnoresClose(r, close, key) ==
    LET r1 == [r EXCEPT !.lRaised = Append(@, "connecting"), !.rejected = close,
                        !.lKey = key]
        rawKey == ExportRawKey(key)
    IN
    IF key = Null \/ rawKey = <<>>
    THEN CloseSocket(r1)
    ELSE ListenerWrite([r1 EXCEPT !.lNext = rawKey],
                       WriteUInt32LE(Len(rawKey)), "wLen")

\* 308-343: raise 'connecting', close if a handler asked for it or if there is
\* no key, else send the length of the raw public key
HandleNewConnection(r, close, key) ==
    LET r1 == [r EXCEPT !.lRaised = Append(@, "connecting")]
        r2 == [r1 EXCEPT !.lKey = key]
        rawKey == ExportRawKey(key)
    IN
    IF close
    THEN CloseSocket([r1 EXCEPT !.rejected = TRUE])
    ELSE IF key = Null \/ rawKey = <<>>
         THEN CloseSocket(r2)
         ELSE ListenerWrite([r2 EXCEPT !.lNext = rawKey],
                            WriteUInt32LE(Len(rawKey)), "wLen")

\* the bytes of a finished write reach the read buffer of the peer, unless the
\* peer has destroyed its socket
DeliverToConnector(r) ==
    LET r1 == CASE r.lpc = "wKey" -> Note(r, "L_sentKey")
                [] r.lpc = "wOkData" -> Note(r, "L_sentOK")
                [] OTHER -> r
    IN
    IF r.cDestroyed THEN [r1 EXCEPT !.lOut = <<>>]
    ELSE [r1 EXCEPT !.cIn = @ \o r.lOut, !.lOut = <<>>]

\* 390-399: the callback of sendOK
OkSent(r) ==
    [Note(r, "L_connected") EXCEPT
        !.lpc = "established", !.lRaised = Append(@, "connected")]

\* the callbacks of the listener's writes: 343-347 (length of the key), 350-354
\* (key), and of CryptedClientConnection.write inside sendOK: 874-884 (length,
\* then encrypted message; an error closes the connection and is handed to the
\* callback of sendOK, which closes again)
ListenerWritten(r, ok) ==
    IF ~ok
    THEN CloseSocket([r EXCEPT !.lWriteErr = TRUE])
    ELSE LET r1 == DeliverToConnector(r) IN
         CASE r.lpc = "wLen" ->
                  ListenerWrite([r1 EXCEPT !.lNext = <<>>], r.lNext, "wKey")
           [] r.lpc = "wKey" ->
                  ListenerRead([r1 EXCEPT !.lpc = "rLen"])
           [] r.lpc = "wOkLen" ->
                  ListenerWrite([r1 EXCEPT !.lNext = <<>>], r.lNext, "wOkData")
           [] r.lpc = "wOkData" -> OkSent(r1)


(***************************************************************************)
(* Client.connectTo (client.ts 82-200)                                     *)
(***************************************************************************)

\* completed(err) (88-100): on an error destroy the socket and hand the error
\* to the caller, else hand over the channel
ConnectCompleted(r, err) ==
    IF err
    THEN [r EXCEPT !.cpc = "failed", !.cDestroyed = TRUE, !.cOut = <<>>, !.cNext = <<>>,
                   !.lEnd = TRUE,
                   !.cbs = Append(@, [err |-> TRUE, chan |-> <<>>])]
    ELSE [Note(r, "C_callback") EXCEPT
                   !.cpc = "done",
                   !.cbs = Append(@, [err |-> FALSE, chan |-> r.cChan])]

\* socket.write(buffer, cb): cb runs in a later turn
ConnectorWrite(r, buf, pc) == [r EXCEPT !.cOut = buf, !.cpc = pc]

\* CryptedClientConnection.read, the callback of _CONN.read(dataLength)
\* (799-831), and the callback connectTo passes to it (167-182): decrypt and
\* decode the message and require type 0; an empty payload decodes to null,
\* and reading data.type of null throws inside the try of read, which turns
\* it into an error
ReadOk(r) ==
    LET dataLength == ReadUInt32LE(r.cLenBuf)
        b == SocketRead(r.cIn, r.cEnd, dataLength)
        decrypted == Decipher(r.cChan, b.data)
        data == JsonParse(decrypted)
    IN
    IF ~b.got
    THEN r
    ELSE LET r0 == [r EXCEPT !.cIn = b.rest]
             r1 == [r0 EXCEPT !.cMsg = decrypted]
         IN
         IF dataLength # Len(b.data)
         THEN ConnectCompleted(r0, TRUE)
         ELSE IF Len(decrypted) < 1 \/ ~data.ok
              THEN ConnectCompleted(r1, TRUE)
              ELSE IF data.type = 0
                   THEN ConnectCompleted(Note(r1, "C_recvOK"), FALSE)
                   ELSE ConnectCompleted(r1, TRUE)

\* CryptedClientConnection.read, the callback of _CONN.read(4) (782-797)
ReadOkLength(r) ==
    LET b == SocketRead(r.cIn, r.cEnd, 4) IN
    IF ~b.got
    THEN r
    ELSE LET r1 == [r EXCEPT !.cIn = b.rest, !.cLenBuf = b.data] IN
         IF 4 # Len(b.data)
         THEN ConnectCompleted(r1, TRUE)
         ELSE IF ReadUInt32LE(b.data) > MAX_MSG_LENGTH
              THEN ConnectCompleted(r1, TRUE)
              ELSE ReadOk([r1 EXCEPT !.cpc = "rOkData"])

\* 133-150: import the key, draw the password, encrypt it, send its length
EncryptAndSend(r, buff, pwd) ==
    LET key == ImportKey(buff)
        encryptedPwd == RsaEncrypt(key, pwd)
    IN
    IF key = Null
    THEN ConnectCompleted(r, TRUE)
    ELSE ConnectorWrite(
             [Note(r, "C_recvKey") EXCEPT !.cKey = key, !.cPwd = pwd, !.cNext = encryptedPwd],
             WriteUInt32LE(Len(encryptedPwd)), "wLen")

\* 122-131: the callback of readSocket(socket, dataLength)
ReadKey(r, pwd) ==
    LET dataLength == ReadUInt32LE(r.cLenBuf)
        b == SocketRead(r.cIn, r.cEnd, dataLength)
    IN
    IF ~b.got
    THEN r
    ELSE LET r1 == [r EXCEPT !.cIn = b.rest] IN
         IF dataLength # Len(b.data)
         THEN ConnectCompleted(r1, TRUE)
         ELSE EncryptAndSend(r1, b.data, pwd)

\* 105-120: the callback of readSocket(socket, 4)
ReadKeyLength(r, pwd) ==
    LET b == SocketRead(r.cIn, r.cEnd, 4) IN
    IF ~b.got
    THEN r
    ELSE LET r1 == [r EXCEPT !.cIn = b.rest, !.cLenBuf = b.data] IN
         IF 4 # Len(b.data)
         THEN ConnectCompleted(r1, TRUE)
         ELSE IF ReadUInt32LE(b.data) < 1 \/ ReadUInt32LE(b.data) > MAX_MSG_LENGTH
              THEN ConnectCompleted(r1, TRUE)
              ELSE ReadKey([r1 EXCEPT !.cpc = "rKey"], pwd)

\* readSocket (helpers.ts 66-85) and SocketConnection.read where the
\* connector waits
ConnectorRead(r, pwd) ==
    CASE r.cpc = "rLen" -> ReadKeyLength(r, pwd)
      [] r.cpc = "rKey" -> ReadKey(r, pwd)
      [] r.cpc = "rOkLen" -> ReadOkLength(r)
      [] r.cpc = "rOkData" -> ReadOk(r)

DeliverToListener(r) ==
    LET r1 == IF r.cpc = "wPwd" THEN Note(r, "C_sentPwd") ELSE r IN
    IF r.lClosed THEN [r1 EXCEPT !.cOut = <<>>]
    ELSE [r1 EXCEPT !.lIn = @ \o r.cOut, !.cOut = <<>>]

\* 163-167: build the channel on the password and wait for "OK"
WaitForOk(r) ==
    ReadOkLength([r EXCEPT !.cChan = r.cPwd, !.cpc = "rOkLen"])

\* the callbacks of the connector's writes: 150-154 (length), 157-161 (password)
ConnectorWritten(r, ok) ==
    IF ~ok
    THEN ConnectCompleted(r, TRUE)
    ELSE LET r1 == DeliverToListener(r) IN
         CASE r.cpc = "wLen" ->
                  ConnectorWrite([r1 EXCEPT !.cNext = <<>>], r.cNext, "wPwd")
           [] r.cpc = "wPwd" -> WaitForOk(r1)

(***************************************************************************)
(* The events of a connection                                              *)
(***************************************************************************)

\* what another program may send instead of the encrypted password: a length
\* of 0, a length above MAX_MSG_LENGTH, a payload that is not encrypted with
\* the listener's key, two bytes of a length
RogueMessages ==
    {<<0, 0, 0, 0>>, <<0, 0, 0, 1>>, <<2, 0, 0, 0, 9, 9>>, <<1, 0>>}

\* a frame: the length of the payload, then the payload
Frame(payload) == WriteUInt32LE(Len(payload)) \o payload

\* what the listener of another program may send as its key: a key, a length
\* of 0, a length above MAX_MSG_LENGTH, two bytes of a length, something that
\* is no key
ForeignKeyMessages ==
    {Frame(ExportRawKey(2)), <<0, 0, 0, 0>>, <<0, 0, 0, 1>>, <<1, 0>>, Frame(<<49, 2>>)}

\* what it may send after the password: "OK", a message of another type, a
\* frame without payload, a length above MAX_MSG_LENGTH, a payload that does
\* not decode
ForeignOkMessages(pwd) ==
    {Frame(Cipher(pwd, JsonStringify([type |-> 0]))),
     Frame(Cipher(pwd, JsonStringify([type |-> 1]))),
     <<0, 0, 0, 0>>, <<0, 0, 0, 1>>, Frame(<<1, 2, 3>>)}

ListenerWaitsForWrite(r) == r.lpc \in {"wLen", "wKey", "wOkLen", "wOkData"}

ListenerCanRead(r) ==
    \/ r.lpc = "rLen" /\ SocketRead(r.lIn, r.lEnd, 4).got
    \/ r.lpc = "rPwd" /\ SocketRead(r.lIn, r.lEnd, ReadUInt32LE(r.lLenBuf)).got

ConnectorCanRead(r) ==
    \/ r.cpc \in {"rLen", "rOkLen"} /\ SocketRead(r.cIn, r.cEnd, 4).got
    \/ r.cpc \in {"rKey", "rOkData"} /\ SocketRead(r.cIn, r.cEnd, ReadUInt32LE(r.cLenBuf)).got

\* a program connects to the listening server: connectTo of a client (103),
\* or something else
Connect(kind) ==
    /\ Len(conns) < MaxConns
    /\ _server # Null /\ servers[_server].status = "listening"
    /\ conns' = Append(conns, NewConn(kind))
    /\ UNCHANGED outsideHandshake

\* mutation of Accept: the listener takes up a connection only when the
\* handshake of every connection accepted before it has ended
Accept_InTurn(i, close) ==
    /\ conns[i].lpc = "pending"
    /\ \A j \in 1..Len(conns) :
           (j # i /\ conns[j].kind # "outbound") =>
               conns[j].lpc \in {"pending", "established", "closed"}
    /\ conns' = [conns EXCEPT ![i] = HandleNewConnection(@, close, _key)]
    /\ UNCHANGED outsideHandshake

\* the server hands the accepted socket to handleNewConnection (480-482); the
\* handlers of 'connecting' set close or not
Accept(i, close) ==
    /\ conns[i].lpc = "pending"
    /\ conns' = [conns EXCEPT ![i] = HandleNewConnection(@, close, _key)]
    /\ UNCHANGED outsideHandshake

ListenerWriteDone(i, ok) ==
    /\ ListenerWaitsForWrite(conns[i])
    /\ conns' = [conns EXCEPT ![i] = ListenerWritten(@, ok)]
    /\ UNCHANGED outsideHandshake

\* 'readable' on the accepted socket
ListenerReadable(i) ==
    /\ ListenerCanRead(conns[i])
    /\ conns' = [conns EXCEPT ![i] = ListenerRead(@)]
    /\ UNCHANGED outsideHandshake

\* the callback of Net.createConnection (103-105)
ConnectorConnected(i, pwd) ==
    /\ conns[i].cpc = "connecting"
    /\ conns' = [conns EXCEPT ![i] = ConnectorRead([@ EXCEPT !.cpc = "rLen"], pwd)]
    /\ UNCHANGED outsideHandshake

\* 'readable' on the connecting socket
ConnectorReadable(i, pwd) ==
    /\ ConnectorCanRead(conns[i])
    /\ conns' = [conns EXCEPT ![i] = ConnectorRead(@, pwd)]
    /\ UNCHANGED outsideHandshake

ConnectorWriteDone(i, ok) ==
    /\ conns[i].cpc \in {"wLen", "wPwd"}
    /\ conns' = [conns EXCEPT ![i] = ConnectorWritten(@, ok)]
    /\ UNCHANGED outsideHandshake

\* socket.on('error') (193-195)
ConnectorSocketError(i) ==
    /\ conns[i].kind \in {"client", "outbound"}
    /\ ~conns[i].cDestroyed
    /\ conns' = [conns EXCEPT ![i] = ConnectCompleted(@, TRUE)]
    /\ UNCHANGED outsideHandshake

\* another program sends one message, before or after it got the key
RogueSend(i, bytes) ==
    /\ conns[i].kind = "rogue"
    /\ ~conns[i].cDestroyed
    /\ conns[i].hist = <<>> \/ conns[i].hist = <<"L_sentKey">>
    /\ conns' = [conns EXCEPT ![i] =
                    IF @.lClosed THEN Note(@, "R_sent")
                    ELSE [Note(@, "R_sent") EXCEPT !.lIn = @ \o bytes]]
    /\ UNCHANGED outsideHandshake

RogueClose(i) ==
    /\ conns[i].kind = "rogue"
    /\ ~conns[i].cDestroyed
    /\ conns' = [conns EXCEPT ![i] = [@ EXCEPT !.cDestroyed = TRUE, !.lEnd = TRUE]]
    /\ UNCHANGED outsideHandshake

\* connectTo of this program to the listener of another program (103)
ConnectOut ==
    /\ Len(conns) < MaxConns
    /\ conns' = Append(conns, NewConn("outbound"))
    /\ UNCHANGED outsideHandshake

\* the listener of another program sends a message: one while connectTo waits
\* for the key, one while it sends the password or waits for "OK"
ForeignSend(i, bytes) ==
    LET r == conns[i] IN
    /\ r.kind = "outbound"
    /\ ~r.cDestroyed /\ ~r.cEnd
    /\ \/ r.oSent = 0 /\ r.cpc \in {"connecting", "rLen"} /\ bytes \in ForeignKeyMessages
       \/ /\ r.oSent <= 1 /\ r.cpc \in {"wLen", "wPwd", "rOkLen"}
          /\ bytes \in ForeignOkMessages(r.cPwd)
    /\ conns' = [conns EXCEPT ![i] =
                    [@ EXCEPT !.cIn = @ \o bytes,
                              !.oSent = IF r.cpc \in {"connecting", "rLen"} THEN 1 ELSE 2]]
    /\ UNCHANGED outsideHandshake

\* the listener of another program closes the connection
ForeignClose(i) ==
    /\ conns[i].kind = "outbound"
    /\ ~conns[i].cDestroyed /\ ~conns[i].cEnd
    /\ conns' = [conns EXCEPT ![i] = [@ EXCEPT !.cEnd = TRUE, !.lClosed = TRUE]]
    /\ UNCHANGED outsideHandshake

Live == 1..Len(conns)

HandshakeNext ==
    \/ \E kind \in {"client", "rogue"} : Connect(kind)
    \/ \E i \in Live : \E close \in BOOLEAN : Accept(i, close)
    \/ \E i \in Live : \E ok \in BOOLEAN : ListenerWriteDone(i, ok)
    \/ \E i \in Live : ListenerReadable(i)
    \/ \E i \in Live : \E pwd \in Passwords : ConnectorConnected(i, pwd)
    \/ \E i \in Live : \E pwd \in Passwords : ConnectorReadable(i, pwd)
    \/ \E i \in Live : \E ok \in BOOLEAN : ConnectorWriteDone(i, ok)
    \/ \E i \in Live : ConnectorSocketError(i)
    \/ \E i \in Live : \E bytes \in RogueMessages : RogueSend(i, bytes)
    \/ \E i \in Live : RogueClose(i)
    \/ ConnectOut
    \/ \E i \in Live : \E bytes \in ForeignKeyMessages \cup
                           ForeignOkMessages(conns[i].cPwd) : ForeignSend(i, bytes)
    \/ \E i \in Live : ForeignClose(i)

\* a client that start() has brought to Running: its listener bound, its key
\* pair generated, the callback of start() invoked
RunningClient ==
    /\ _state = CLIENT_STATE_RUNNING
    /\ _server = 1
    /\ _key = 1
    /\ config = [keySizeValid |-> TRUE]
    /\ servers = [s \in ServerIds |->
                     IF s = 1
                     THEN [status |-> "listening", startCall |-> 1, stopCall |-> 0,
                           closeErr |-> FALSE]
                     ELSE NoServer]
    /\ calls = <<[op |-> "start", at |-> CLIENT_STATE_STOPPED,
                  cbs |-> <<[err |-> FALSE, st |-> CLIENT_STATE_RUNNING]>>]>>
    /\ nerrors = 0
    /\ handler = "listening"
    /\ trace = <<StateEv(CLIENT_STATE_RUNNING), CbEv(1, FALSE, CLIENT_STATE_RUNNING)>>

HandshakeInit ==
    /\ RunningClient
    /\ conns = <<>>
    /\ sender = NoSender
    /\ receiver = NoReceiver
    /\ NoAccess
    /\ tempDir = "dir"
    /\ NoList
    /\ NoLater

SpecHandshake == HandshakeInit /\ [][HandshakeNext]_vars


(***************************************************************************)
(* Part 3: an established channel.  CryptedClientConnection (client.ts     *)
(* 721-890) over SocketConnection (sockets.ts), one direction: `sender`    *)
(* calls write(), `receiver` calls read().                                 *)
(***************************************************************************)
MsgTypes == {5, 6}

\* what a caller passes to write(): a message {type: t}, null, or an object
\* JSON.stringify throws on (one that refers to itself)
WriteInputs ==
    [kind : {"msg"}, type : MsgTypes] \cup
    {[kind |-> "null", type |-> 0], [kind |-> "cyclic", type |-> 0]}

\* 853-858: json = '' unless data is truthy, else JSON.stringify(data)
Serialize(data) ==
    IF data.kind = "msg" THEN JsonStringify([type |-> data.type]) ELSE <<>>

\* what a peer that is not this program may send: a length of 0, a length
\* above MAX_MSG_LENGTH, two bytes of a length, a frame that does not decode,
\* a length of 3 followed by one byte
InjectedBytes ==
    {<<0, 0, 0, 0>>, <<0, 0, 0, 1>>, <<1, 0>>, Frame(<<1, 2, 3>>), <<3, 0, 0, 0, 1>>}

NewWrite(data, cb) ==
    [data |-> data, cb |-> cb, crypted |-> <<>>, done |-> FALSE, failed |-> FALSE,
     reported |-> FALSE, closed |-> FALSE]

NewRead ==
    [pc |-> "len", lenBuf |-> <<>>, taken |-> 0, err |-> FALSE, isNull |-> FALSE,
     type |-> 0, closedAtCb |-> FALSE]

\* SocketConnection.close (sockets.ts 49-62): the socket is destroyed
CloseConn(side) == [side EXCEPT !.destroyed = TRUE]

\* completed(err) of write (839-850): nothing happens without a callback; with
\* one, an error closes the connection before the callback gets it
WriteCompleted(sn, k, err) ==
    LET sn1 == IF sn.calls[k].cb /\ err THEN CloseConn(sn) ELSE sn IN
    [sn1 EXCEPT !.calls[k] =
        [@ EXCEPT !.done = TRUE, !.failed = err, !.reported = err /\ sn.calls[k].cb,
                  !.closed = sn1.destroyed]]

\* socket.write(buffer, cb) (sockets.ts 93-99): queued on the socket
QueueWrite(sn, k, step, bytes) ==
    [sn EXCEPT !.queue = Append(@, [call |-> k, step |-> step, bytes |-> bytes])]

\* CryptedClientConnection.write (836-872): serialize, encrypt, send the
\* length; an exception of JSON.stringify goes to completed
ChannelWrite(sn, data, cb) ==
    LET k == Len(sn.calls) + 1
        sn1 == [sn EXCEPT !.calls = Append(@, NewWrite(data, cb))]
        crypted == Cipher(sn.pwd, Serialize(data))
    IN
    IF data.kind = "cyclic"
    THEN WriteCompleted(sn1, k, TRUE)
    ELSE QueueWrite([sn1 EXCEPT !.calls[k].crypted = crypted], k, "len",
                    WriteUInt32LE(Len(crypted)))

\* the callbacks of the two writes (874-884): after the length the encrypted
\* data is written, after the data the call completes; a failed write has made
\* the socket destroy itself before its callback runs
SocketWritten(sn, ok) ==
    LET h == Head(sn.queue)
        sn1 == [sn EXCEPT !.queue = Tail(@)]
    IN
    IF ~ok
    THEN WriteCompleted(CloseConn(sn1), h.call, TRUE)
    ELSE IF h.step = "len"
         THEN QueueWrite(sn1, h.call, "data", sn.calls[h.call].crypted)
         ELSE WriteCompleted(sn1, h.call, FALSE)

\* completed(err) of read (771-780): an error closes the connection, then the
\* callback gets it
ReadCompleted(rc, k, err, isNull, type) ==
    LET rc1 == IF err THEN CloseConn(rc) ELSE rc IN
    [rc1 EXCEPT !.reads[k] =
        [@ EXCEPT !.pc = "done", !.err = err, !.isNull = isNull, !.type = type,
                  !.closedAtCb = rc1.destroyed]]

\* the callback of _CONN.read(dataLength) (799-831)
ChannelReadData(rc, k) ==
    LET dataLength == ReadUInt32LE(rc.reads[k].lenBuf)
        b == SocketRead(rc.inBuf, rc.ended, dataLength)
        decrypted == Decipher(rc.pwd, b.data)
        data == JsonParse(decrypted)
    IN
    IF ~b.got
    THEN rc
    ELSE LET rc1 == [rc EXCEPT !.inBuf = b.rest,
                               !.reads[k].taken = @ + Len(b.data)]
         IN
         IF dataLength # Len(b.data)
         THEN ReadCompleted(rc1, k, TRUE, FALSE, 0)
         ELSE IF Len(decrypted) < 1
              THEN ReadCompleted(rc1, k, FALSE, TRUE, 0)
              ELSE IF ~data.ok
                   THEN ReadCompleted(rc1, k, TRUE, FALSE, 0)
                   ELSE ReadCompleted(rc1, k, FALSE, FALSE, data.type)

\* the callback of _CONN.read(4) (782-797)
ChannelReadLength(rc, k) ==
    LET b == SocketRead(rc.inBuf, rc.ended, 4) IN
    IF ~b.got
    THEN rc
    ELSE LET rc1 == [rc EXCEPT !.inBuf = b.rest,
                               !.reads[k].lenBuf = b.data,
                               !.reads[k].taken = @ + Len(b.data)]
         IN
         IF 4 # Len(b.data)
         THEN ReadCompleted(rc1, k, TRUE, FALSE, 0)
         ELSE IF ReadUInt32LE(b.data) > MAX_MSG_LENGTH
              THEN ReadCompleted(rc1, k, TRUE, FALSE, 0)
              ELSE ChannelReadData([rc1 EXCEPT !.reads[k].pc = "data"], k)

\* SocketConnection.read (sockets.ts 71-90) where read k waits
ChannelReadStep(rc, k) ==
    IF rc.reads[k].pc = "len" THEN ChannelReadLength(rc, k) ELSE ChannelReadData(rc, k)

\* the read that has not completed, 0 if there is none
PendingRead ==
    IF receiver.reads # <<>> /\ receiver.reads[Len(receiver.reads)].pc # "done"
    THEN Len(receiver.reads) ELSE 0

ReceiverCanRead ==
    /\ PendingRead # 0
    /\ ~receiver.destroyed
    /\ LET rd == receiver.reads[PendingRead] IN
       SocketRead(receiver.inBuf, receiver.ended,
                  IF rd.pc = "len" THEN 4 ELSE ReadUInt32LE(rd.lenBuf)).got

\* the peer of a destroyed socket sees the end of the stream
PeerOf(sn, rc) == IF sn.destroyed THEN [rc EXCEPT !.ended = TRUE] ELSE rc

\* a call of write(data, callback) or write(data)
Write(data, cb) ==
    /\ Len(sender.calls) < MaxWrites
    /\ receiver.injected = 0
    /\ sender' = ChannelWrite(sender, data, cb)
    /\ receiver' = PeerOf(sender', receiver)
    /\ UNCHANGED outsideChannel

\* the socket has written the buffer at the head of its queue, or failed to;
\* the bytes reach the read buffer of the peer unless it has destroyed its
\* socket
SocketWriteDone(ok) ==
    /\ sender.queue # <<>>
    /\ sender.destroyed => ~ok
    /\ sender' = SocketWritten(sender, ok)
    /\ receiver' = PeerOf(sender',
                       IF ok /\ ~receiver.destroyed
                       THEN [receiver EXCEPT !.inBuf = @ \o Head(sender.queue).bytes]
                       ELSE receiver)
    /\ UNCHANGED outsideChannel

\* a call of read(callback), made when the read before it has completed
Read ==
    /\ Len(receiver.reads) < MaxReads
    /\ PendingRead = 0
    /\ ~receiver.destroyed
    /\ receiver' = ChannelReadStep([receiver EXCEPT !.reads = Append(@, NewRead)],
                                   Len(receiver.reads) + 1)
    /\ UNCHANGED <<sender, outsideChannel>>

\* 'readable' on the socket of the receiver
Readable ==
    /\ ReceiverCanRead
    /\ receiver' = ChannelReadStep(receiver, PendingRead)
    /\ UNCHANGED <<sender, outsideChannel>>

\* a peer that is not this program sends bytes
Inject(bytes) ==
    /\ sender.calls = <<>>
    /\ receiver.injected < MaxInjects
    /\ ~receiver.ended /\ ~receiver.destroyed
    /\ receiver' = [receiver EXCEPT !.inBuf = @ \o bytes, !.injected = @ + 1]
    /\ UNCHANGED <<sender, outsideChannel>>

\* the writing side calls close() (750-753)
SenderClose ==
    /\ ~sender.destroyed
    /\ sender' = CloseConn(sender)
    /\ receiver' = PeerOf(sender', receiver)
    /\ UNCHANGED outsideChannel

ChannelNext ==
    \/ \E data \in WriteInputs : \E cb \in BOOLEAN : Write(data, cb)
    \/ \E ok \in BOOLEAN : SocketWriteDone(ok)
    \/ Read
    \/ Readable
    \/ \E bytes \in InjectedBytes : Inject(bytes)
    \/ SenderClose

\* a channel after the handshake: both sides hold the same password
ChannelInit ==
    /\ RunningClient
    /\ conns = <<>>
    /\ \E pwd \in Passwords :
          /\ sender = [NoSender EXCEPT !.pwd = pwd]
          /\ receiver = [NoReceiver EXCEPT !.pwd = pwd]
    /\ NoAccess
    /\ tempDir = "dir"
    /\ NoList
    /\ NoLater

SpecChannel == ChannelInit /\ [][ChannelNext]_vars


(***************************************************************************)
(* Part 4: Client.downloads (client.ts 203-279) and Client.library         *)
(* (411-434)                                                               *)
(***************************************************************************)

\* a call of downloads() or library(): where it is, and what its callback got
NewAccess(op, pc) == [op |-> op, pc |-> pc, err |-> FALSE, result |-> Null]

\* completed(err) (206-213, 414-421): callback(err), or callback(null, inst)
\* with inst what the field holds at that moment
AccessCompleted(cs, c, err, inst) ==
    [cs EXCEPT ![c] = [@ EXCEPT !.pc = "done", !.err = err,
                                !.result = IF err THEN Null ELSE inst]]

\* downloads(callback) up to its first suspension (215-279): with a list in
\* _downloads the callback gets it at once, else FS.exists(tempDir) is asked
DownloadsBody(cs, c) ==
    IF _downloads = Null
    THEN /\ accessors' = [accessors EXCEPT !.calls = [cs EXCEPT ![c].pc = "exists"]]
         /\ UNCHANGED <<_downloads, _library, tempDir>>
    ELSE /\ accessors' = [accessors EXCEPT !.calls = AccessCompleted(cs, c, FALSE, _downloads)]
         /\ UNCHANGED <<_downloads, _library, tempDir>>

Downloads ==
    /\ Len(accessors.calls) < MaxAccesses
    /\ DownloadsBody(Append(accessors.calls, NewAccess("downloads", "start")),
                     Len(accessors.calls) + 1)
    /\ UNCHANGED outsideAccessors

\* the callback of FS.exists (252-266)
ExistsCallback(c) ==
    /\ accessors.calls[c].pc = "exists"
    /\ accessors' = [accessors EXCEPT
                        !.calls[c].pc = IF tempDir = "missing" THEN "mkdir" ELSE "realpath"]
    /\ UNCHANGED <<_downloads, _library, tempDir, outsideAccessors>>

\* the callback of FS.mkdir (254-261): mkdir fails when the directory has been
\* made in the meantime, or for want of permission
MkdirCallback(c, denied) ==
    /\ accessors.calls[c].pc = "mkdir"
    /\ IF tempDir = "missing" /\ ~denied
       THEN /\ tempDir' = "dir"
            /\ accessors' = [accessors EXCEPT !.calls[c].pc = "realpath"]
       ELSE /\ accessors' = [accessors EXCEPT
                                !.calls = AccessCompleted(@, c, TRUE, Null)]
            /\ UNCHANGED tempDir
    /\ UNCHANGED <<_downloads, _library, outsideAccessors>>

\* the callback of FS.realpath (240-248)
RealpathCallback(c, ok) ==
    /\ accessors.calls[c].pc = "realpath"
    /\ accessors' = IF ok /\ tempDir # "missing"
                    THEN [accessors EXCEPT !.calls[c].pc = "lstat"]
                    ELSE [accessors EXCEPT !.calls = AccessCompleted(@, c, TRUE, Null)]
    /\ UNCHANGED <<_downloads, _library, tempDir, outsideAccessors>>

\* the callback of FS.lstat (222-236): a DownloadList is constructed and
\* stored, whatever _downloads holds by now
LstatCallback(c, ok) ==
    /\ accessors.calls[c].pc = "lstat"
    /\ IF ok /\ tempDir = "dir"
       THEN LET list == accessors.lists + 1 IN
            /\ _downloads' = list
            /\ accessors' = [accessors EXCEPT
                                !.lists = list,
                                !.calls = AccessCompleted(@, c, FALSE, list)]
       ELSE /\ accessors' = [accessors EXCEPT
                                !.calls = AccessCompleted(@, c, TRUE, Null)]
            /\ UNCHANGED _downloads
    /\ UNCHANGED <<_library, tempDir, outsideAccessors>>

\* library(callback) (411-434): all in one turn
Library ==
    /\ Len(accessors.calls) < MaxAccesses
    /\ LET c == Len(accessors.calls) + 1
           cs == Append(accessors.calls, NewAccess("library", "start"))
           lib == IF _library = Null THEN accessors.libraries + 1 ELSE _library
       IN
       /\ _library' = lib
       /\ accessors' = [accessors EXCEPT
                           !.libraries = IF _library = Null THEN lib ELSE @,
                           !.calls = AccessCompleted(cs, c, FALSE, lib)]
    /\ UNCHANGED <<_downloads, tempDir, outsideAccessors>>

AccessCalls == 1..Len(accessors.calls)

AccessorsNext ==
    \/ Downloads
    \/ \E c \in AccessCalls : ExistsCallback(c)
    \/ \E c \in AccessCalls : \E denied \in BOOLEAN : MkdirCallback(c, denied)
    \/ \E c \in AccessCalls : \E ok \in BOOLEAN : RealpathCallback(c, ok)
    \/ \E c \in AccessCalls : \E ok \in BOOLEAN : LstatCallback(c, ok)
    \/ Library

\* a client just constructed; config.folders.temp names nothing, a directory,
\* or a file
AccessorsInit ==
    /\ StoppedClient
    /\ conns = <<>>
    /\ sender = NoSender
    /\ receiver = NoReceiver
    /\ NoAccess
    /\ tempDir \in {"missing", "dir", "file"}
    /\ NoList
    /\ NoLater

SpecAccessors == AccessorsInit /\ [][AccessorsNext]_vars

(***************************************************************************)
(* Part 5: DownloadList (downloads.ts).  Links and file names.             *)
(***************************************************************************)

\* a link is a sequence of tokens; a token stands for a run of characters:
\* "scheme" for dboy:// (v = 1: in capitals), "ws" for white space, "pipe" for
\* |, "file" for the word file (v = 1: in capitals), "chr" for the character
\* of code v written as it is, "pct" for the three characters %XX that stand
\* for the character of code v,
\* "num" for the decimal digits of v ("num0": with zeros in front), "hex" for
\* the 64 hexadecimal digits of hash v ("HEX": in capitals, "hex63": one digit
\* short), "slash" for /, "junk" for anything else
Tok(t, v) == [t |-> t, v |-> v]

\* the sizes links declare: nothing, less than a block, exactly one block,
\* one byte more than a block, one byte more than a chunk
Sizes == {0, 1024, BLOCK_SIZE, BLOCK_SIZE + 1, CHUNK_SIZE + 1}

\* the characters encodeURIComponent leaves as they are: letters, digits
\* and - _ . ! ~ * ' ( ) -- here a, t and the dot
Unreserved == {46, 97, 116}

\* encodeURIComponent (libraries.ts 430): a character is left or becomes %XX
EncodeURIComponent(name) ==
    [k \in DOMAIN name |->
        IF name[k] \in Unreserved THEN Tok("chr", name[k]) ELSE Tok("pct", name[k])]

\* a variant that leaves %XX as it is
DecodeURIComponent_Raw(s) ==
    [k \in DOMAIN s |-> IF s[k].t = "ws" THEN 32 ELSE IF s[k].t = "pct" THEN 37 ELSE s[k].v]

\* decodeURIComponent (72): %XX becomes its character, white space stays
DecodeURIComponent(s) ==
    [k \in DOMAIN s |-> IF s[k].t = "ws" THEN 32 ELSE s[k].v]

\* url() (libraries.ts 429-430): the link of the file with that base name,
\* the size and the hash recorded by hash()
Url(name, size, hash) ==
    <<Tok("scheme", 0), Tok("pipe", 0), Tok("file", 0), Tok("pipe", 0)>>
        \o EncodeURIComponent(name)
        \o <<Tok("pipe", 0), Tok("num", size), Tok("pipe", 0),
             Tok("hex", hash), Tok("pipe", 0), Tok("slash", 0)>>

\* the link a library renders for content with hash h and size s, of a file
\* named "a"
CanonicalLink(h, s) == Url(<<97>>, s, h)

\* the same content written differently: capitals, white space, zeros in
\* front of the size, a name of white space only, no slash at the end
LooseLink(h, s) ==
    <<Tok("ws", 0), Tok("scheme", 1), Tok("ws", 0), Tok("pipe", 0), Tok("ws", 0),
      Tok("file", 1), Tok("pipe", 0), Tok("ws", 0), Tok("pipe", 0),
      Tok("ws", 0), Tok("num0", s), Tok("pipe", 0),
      Tok("HEX", h), Tok("ws", 0), Tok("pipe", 0), Tok("ws", 0)>>

\* strings that are no links: something else altogether, a link without its
\* size field, with a size that is no number, with a hash one digit short,
\* with an empty name, with something after the final slash, with a scheme
\* that does not start the string
BrokenLinks ==
    {<<Tok("junk", 0)>>,
     <<Tok("scheme", 0), Tok("pipe", 0), Tok("file", 0), Tok("pipe", 0),
       Tok("chr", 97), Tok("pipe", 0), Tok("hex", 1), Tok("pipe", 0), Tok("slash", 0)>>,
     <<Tok("scheme", 0), Tok("pipe", 0), Tok("file", 0), Tok("pipe", 0),
       Tok("chr", 97), Tok("pipe", 0), Tok("junk", 0), Tok("pipe", 0),
       Tok("hex", 1), Tok("pipe", 0), Tok("slash", 0)>>,
     <<Tok("scheme", 0), Tok("pipe", 0), Tok("file", 0), Tok("pipe", 0),
       Tok("chr", 97), Tok("pipe", 0), Tok("num", 1024), Tok("pipe", 0),
       Tok("hex63", 1), Tok("pipe", 0), Tok("slash", 0)>>,
     <<Tok("scheme", 0), Tok("pipe", 0), Tok("file", 0), Tok("pipe", 0),
       Tok("pipe", 0), Tok("num", 1024), Tok("pipe", 0),
       Tok("hex", 1), Tok("pipe", 0), Tok("slash", 0)>>,
     <<Tok("scheme", 0), Tok("pipe", 0), Tok("file", 0), Tok("pipe", 0),
       Tok("chr", 97), Tok("pipe", 0), Tok("num", 1024), Tok("pipe", 0),
       Tok("hex", 1), Tok("pipe", 0), Tok("slash", 0), Tok("junk", 0)>>,
     <<Tok("junk", 0), Tok("scheme", 0), Tok("pipe", 0), Tok("file", 0), Tok("pipe", 0),
       Tok("chr", 97), Tok("pipe", 0), Tok("num", 1024), Tok("pipe", 0),
       Tok("hex", 1), Tok("pipe", 0), Tok("slash", 0)>>}

\* String.prototype.trim (64, 72, 79, 80): white space off both ends
RECURSIVE TrimLeft(_)
TrimLeft(s) ==
    IF s # <<>> /\ Head(s).t = "ws" THEN TrimLeft(Tail(s)) ELSE s

RECURSIVE TrimRight(_)
TrimRight(s) ==
    IF s # <<>> /\ s[Len(s)].t = "ws" THEN TrimRight(SubSeq(s, 1, Len(s) - 1)) ELSE s

Trim(s) == TrimLeft(TrimRight(s))

\* the runs of tokens between the pipes of s
RECURSIVE SplitAtPipes(_, _)
SplitAtPipes(s, field) ==
    IF s = <<>> THEN <<field>>
    ELSE IF Head(s).t = "pipe"
         THEN <<field>> \o SplitAtPipes(Tail(s), <<>>)
         ELSE SplitAtPipes(Tail(s), Append(field, Head(s)))

\* REGEX (66) on a trimmed link: dboy:// \s* | \s* file \s* | [^|]+ | \s*
\* [0-9]+ \s* | \s* [0-9a-f]{64} \s* | \s* /?  -- without regard to case
RegexMatch(link) ==
    LET f == SplitAtPipes(link, <<>>) IN
    IF Len(f) # 6
    THEN [ok |-> FALSE, name |-> <<>>, size |-> <<>>, hash |-> <<>>]
    ELSE [ok |-> /\ Len(TrimRight(f[1])) = 1 /\ f[1][1].t = "scheme"
                 /\ Len(Trim(f[2])) = 1 /\ Trim(f[2])[1].t = "file"
                 /\ f[3] # <<>>
                 /\ Len(Trim(f[4])) = 1 /\ Trim(f[4])[1].t \in {"num", "num0"}
                 /\ Len(Trim(f[5])) = 1 /\ Trim(f[5])[1].t \in {"hex", "HEX"}
                 /\ TrimLeft(f[6]) \in {<<>>, <<Tok("slash", 0)>>},
          name |-> f[3], size |-> f[4], hash |-> f[5]]

\* the characters of 'file.dat'
FILE_DAT == <<102, 105, 108, 101, 46, 100, 97, 116>>

\* 70-77: the name, trimmed and percent-decoded; 'file.dat' if that leaves
\* nothing
FileNameOf(match) ==
    LET fileName == DecodeURIComponent(Trim(match.name))
    IN  IF fileName = <<>> THEN FILE_DAT ELSE fileName

\* 79: match[15].toLowerCase().trim()
HashOf(match) == Trim(match.hash)[1].v

\* 80: parseInt(match[11].trim())
FileSizeOf(match) == Trim(match.size)[1].v

\* 82-83: Path.join(me._DIR, `${hash}_${fileSize}.dbtmp`) and .dbmeta
TempFileOf(hash, fileSize) == <<hash, fileSize, "dbtmp">>

MetaFileOf(hash, fileSize) == <<hash, fileSize, "dbmeta">>

\* the links in use: one per size for hash 1, one of another hash, two
\* written loosely, and the strings that are no links
Links ==
    {CanonicalLink(1, s) : s \in Sizes}
        \cup {CanonicalLink(2, 1024), LooseLink(1, 1024), LooseLink(2, 0)}
        \cup BrokenLinks

(***************************************************************************)
(* Part 5, continued: the files of a DownloadList and its operations.      *)
(***************************************************************************)

\* a variant that rounds down
PartCount_Floor(fileSize) == fileSize \div CHUNK_SIZE

\* 113-119: Math.ceil(fileSize / 9728000.0) descriptors, index i, nothing
\* completed
PartCount(fileSize) == (fileSize + CHUNK_SIZE - 1) \div CHUNK_SIZE

Chunks(fileSize) ==
    [i \in 1..PartCount(fileSize) |-> [index |-> i - 1, completed |-> 0]]

\* FS.open(path, 'w') (102, 136): the file, empty, whatever it was before
EmptyFile(path) ==
    [path |-> path, len |-> 0, zeros |-> 0, maxBlock |-> 0, name |-> <<>>, chunks |-> <<>>]

Opened(d, path) == {f \in d : f.path # path} \cup {EmptyFile(path)}

FileAt(d, path) == CHOOSE f \in d : f.path = path

Exists(d, path) == \E f \in d : f.path = path

\* FS.write(fd, Buffer.alloc(n, 0), 0, n) (152-154): n zero bytes at the end
ZerosWritten(d, path, n) ==
    {f \in d : f.path # path}
        \cup {[FileAt(d, path) EXCEPT !.len = @ + n, !.zeros = @ + n,
                                      !.maxBlock = IF n > @ THEN n ELSE @]}

\* FS.write(fd, JSON.stringify(meta, null, 2), 0, 'utf8') (108-121)
MetaWritten(d, path, name, chunks) ==
    {f \in d : f.path # path}
        \cup {[FileAt(d, path) EXCEPT !.name = name, !.chunks = chunks]}

\* the two files an earlier run left for content (h, s) under name n
StoredPair(h, s, n) ==
    {[EmptyFile(TempFileOf(h, s)) EXCEPT !.len = s, !.zeros = s,
                                         !.maxBlock = IF s < BLOCK_SIZE THEN s ELSE BLOCK_SIZE],
     [EmptyFile(MetaFileOf(h, s)) EXCEPT !.name = n, !.chunks = Chunks(s)]}

\* what the directory holds when the list is constructed: nothing, one
\* download, or two downloads and a data file without its metadata file
InitialDisks ==
    {{}, StoredPair(1, 1024, <<97>>),
     StoredPair(1, 1024, <<97>>) \cup StoredPair(2, 0, <<32>>) \cup {EmptyFile(TempFileOf(2, 1024))}}

\* String.prototype.trim on a name (305): spaces off both ends
RECURSIVE TrimName(_)
TrimName(n) ==
    IF n # <<>> /\ Head(n) = 32 THEN TrimName(Tail(n))
    ELSE IF n # <<>> /\ n[Len(n)] = 32 THEN TrimName(SubSeq(n, 1, Len(n) - 1))
    ELSE n

\* new DownloadItem(list, tmpFile, metaFile) (296-311): the name is read
\* from the metadata file and trimmed; 'file.dat' if that leaves nothing
DownloadItem(d, tmpFile, metaFile) ==
    [tempFile |-> tmpFile, metaFile |-> metaFile,
     fileName |-> IF TrimName(FileAt(d, metaFile).name) = <<>> THEN FILE_DAT
                  ELSE TrimName(FileAt(d, metaFile).name)]

\* 243: Path.join(me._DIR, __filename), the path of no data file
ScriptPath == <<0, 0, "downloads.js">>

\* the data files of d in the order FS.readdir lists them (by name)
Before(p, q) == p[1] < q[1] \/ (p[1] = q[1] /\ p[2] < q[2])

RECURSIVE Listing(_)
Listing(ps) ==
    IF ps = {} THEN <<>>
    ELSE LET p == CHOOSE x \in ps : \A y \in ps \ {x} : Before(x, y)
         IN <<p>> \o Listing(ps \ {p})

\* 234-252: an item for every data file whose metadata file exists
RECURSIVE ScannedItems(_, _)
ScannedItems(d, tempFiles) ==
    IF tempFiles = <<>> THEN <<>>
    ELSE LET metaFile == MetaFileOf(Head(tempFiles)[1], Head(tempFiles)[2])
         IN (IF Exists(d, metaFile)
             THEN <<DownloadItem(d, ScriptPath, metaFile)>>
             ELSE <<>>) \o ScannedItems(d, Tail(tempFiles))

\* 169-177: the loop `for (let i = 0; me._items.length; i++)` from position
\* i on: the position of the item with that data file, 0 if the loop ends
\* without one, -1 if it throws a TypeError (no list, or no item at i)
\* a variant that compares the path of the metadata file
RECURSIVE CheckIfFileExists_ByMetaFile(_, _, _)
CheckIfFileExists_ByMetaFile(items, i, tempFile) ==
    IF items.undefined THEN -1
    ELSE IF Len(items.list) = 0 THEN 0
    ELSE IF i > Len(items.list) THEN -1
    ELSE IF items.list[i].metaFile = tempFile THEN i
    ELSE CheckIfFileExists_ByMetaFile(items, i + 1, tempFile)

RECURSIVE CheckIfFileExists(_, _, _)
CheckIfFileExists(items, i, tempFile) ==
    IF items.undefined THEN -1
    ELSE IF Len(items.list) = 0 THEN 0
    ELSE IF i > Len(items.list) THEN -1
    ELSE IF items.list[i].tempFile = tempFile THEN i
    ELSE CheckIfFileExists(items, i + 1, tempFile)

\* a call of items()/addByLink() just made: the locals of its closure, the
\* list as the call found it, and whether the call has scanned the directory
NewListCall(op, link) ==
    [op |-> op, link |-> link, pc |-> "called", heldBefore |-> _items,
     fileName |-> <<>>, hash |-> 0, fileSize |-> 0, remainingBytes |-> 0,
     err |-> "", next |-> FALSE, newItem |-> 0, scanned |-> FALSE, cbs |-> <<>>]

\* completed(err) (54-61, 211-220): callback(err), or callback(null, newItem)
\* / callback(null, copyOfItems)
ListCompleted(cs, c, err, items) ==
    [cs EXCEPT ![c].pc = "done",
               ![c].cbs = Append(@, [err |-> err,
                                     item |-> IF err = "" THEN cs[c].newItem ELSE 0,
                                     items |-> IF err = "" /\ cs[c].op = "items"
                                               THEN items.list ELSE <<>>])]

\* no call is under way: a caller calls addByLink() from the callback of the
\* call before
ListIdle == \A c \in DOMAIN listCalls : listCalls[c].pc = "done"

FsErrors ==
    Cardinality({c \in DOMAIN listCalls :
                   \/ listCalls[c].err = "EIO"
                   \/ \E k \in DOMAIN listCalls[c].cbs : listCalls[c].cbs[k].err = "EIO"})

\* whether a file-system operation of call c may fail
MayFail(c) ==
    /\ FsErrors < MaxFsErrors
    /\ listCalls[c].fileSize <= MaxFaultBlocks * BLOCK_SIZE

AtPc(pc) == {c \in DOMAIN listCalls : listCalls[c].pc = pc}

\* items(callback) (208-264); a caller may call it again before the callback
\* of an earlier call
Items ==
    /\ Len(listCalls) < MaxListCalls
    /\ \A c \in DOMAIN listCalls : listCalls[c].pc = "done" \/ listCalls[c].op = "items"
    /\ LET c == Len(listCalls) + 1
           cs == Append(listCalls, NewListCall("items", <<>>))
       IN  listCalls' = IF _items.undefined
                        THEN [cs EXCEPT ![c].pc = "readdir"]
                        ELSE ListCompleted(cs, c, "", _items)
    /\ UNCHANGED <<_items, disk, outsideList>>

\* the callback of FS.readdir (226-255)
ReaddirCallback(ok) ==
    \E c \in AtPc("readdir") :
        /\ ok \/ MayFail(c)
        /\ IF ~ok
           THEN /\ listCalls' = ListCompleted(listCalls, c, "EIO", _items)
                /\ UNCHANGED _items
           ELSE LET tempFiles == Listing({f.path : f \in {g \in disk : g.path[3] = "dbtmp"}})
                    items == [undefined |-> FALSE, list |-> ScannedItems(disk, tempFiles)]
                IN  /\ _items' = items
                    /\ listCalls' = ListCompleted([listCalls EXCEPT ![c].scanned = TRUE],
                                                  c, "", items)
        /\ UNCHANGED <<disk, outsideList>>

\* a variant that reports no error for a string that is no link
AddByLinkBody_SilentOnMismatch(cs, c, link) ==
    LET match == RegexMatch(Trim(link)) IN
    IF ~match.ok
    THEN ListCompleted(cs, c, "", _items)
    ELSE LET found == CheckIfFileExists(_items, 1, TempFileOf(HashOf(match), FileSizeOf(match)))
             parsed == [cs EXCEPT ![c].fileName = FileNameOf(match), ![c].hash = HashOf(match),
                                  ![c].fileSize = FileSizeOf(match)]
         IN  IF found = -1 THEN ListCompleted(parsed, c, "TypeError", _items)
             ELSE IF found > 0
             THEN ListCompleted([parsed EXCEPT ![c].newItem = found], c, "", _items)
             ELSE [parsed EXCEPT ![c].pc = "openTemp"]

\* addByLink(link, callback) up to its first file-system call (48-195)
AddByLinkBody(cs, c, link) ==
    LET match == RegexMatch(Trim(link)) IN
    IF ~match.ok
    THEN ListCompleted(cs, c, "Invalid link format!", _items)
    ELSE LET fileName == FileNameOf(match)
             hash == HashOf(match)
             fileSize == FileSizeOf(match)
             found == CheckIfFileExists(_items, 1, TempFileOf(hash, fileSize))
             parsed == [cs EXCEPT ![c].fileName = fileName, ![c].hash = hash,
                                  ![c].fileSize = fileSize]
         IN  IF found = -1 THEN ListCompleted(parsed, c, "TypeError", _items)
             ELSE IF found > 0
             THEN ListCompleted([parsed EXCEPT ![c].newItem = found], c, "", _items)
             ELSE [parsed EXCEPT ![c].pc = "openTemp"]

AddByLink(link) ==
    /\ Len(listCalls) < MaxListCalls
    /\ ListIdle
    /\ listCalls' = AddByLinkBody(Append(listCalls, NewListCall("addByLink", link)),
                                  Len(listCalls) + 1, link)
    /\ UNCHANGED <<_items, disk, outsideList>>

\* writeNext (145-163): close the file when nothing remains, else write a
\* block
WriteNext(cs, c) ==
    IF cs[c].remainingBytes < 1
    THEN [cs EXCEPT ![c].pc = "close", ![c].err = "", ![c].next = TRUE]
    ELSE [cs EXCEPT ![c].pc = "writeTemp"]

\* the callback of FS.open(tempFile, 'w') (136-166)
TempFileOpened(ok) ==
    \E c \in AtPc("openTemp") :
        /\ ok \/ MayFail(c)
        /\ IF ~ok
           THEN /\ listCalls' = ListCompleted(listCalls, c, "EIO", _items)
                /\ UNCHANGED disk
           ELSE /\ disk' = Opened(disk, TempFileOf(listCalls[c].hash, listCalls[c].fileSize))
                /\ listCalls' = WriteNext([listCalls EXCEPT ![c].remainingBytes =
                                                               listCalls[c].fileSize], c)
        /\ UNCHANGED <<_items, outsideList>>

\* 151: Math.min(81920, remainingBytes)
BytesToWrite(remainingBytes) ==
    IF remainingBytes < BLOCK_SIZE THEN remainingBytes ELSE BLOCK_SIZE

\* the callback of FS.write(fd, buffer, 0, buffer.length) (154-162); the
\* file system writes the block whole
TempFileWritten(ok) ==
    \E c \in AtPc("writeTemp") :
        /\ ok \/ MayFail(c)
        /\ IF ~ok
           THEN /\ listCalls' = [listCalls EXCEPT ![c].pc = "close", ![c].err = "EIO",
                                                  ![c].next = FALSE]
                /\ UNCHANGED disk
           ELSE LET written == BytesToWrite(listCalls[c].remainingBytes) IN
                /\ disk' = ZerosWritten(disk, TempFileOf(listCalls[c].hash, listCalls[c].fileSize),
                                        written)
                /\ listCalls' = WriteNext([listCalls EXCEPT ![c].remainingBytes = @ - written], c)
        /\ UNCHANGED <<_items, outsideList>>

\* a variant that completes without the error
FileClosed_DropsError ==
    \E c \in AtPc("close") :
        /\ listCalls' = IF listCalls[c].next
                        THEN [listCalls EXCEPT ![c].pc = "openMeta"]
                        ELSE ListCompleted(listCalls, c, "", _items)
        /\ UNCHANGED <<_items, disk, outsideList>>

\* the callback of FS.close (86-98): completed(err), or what comes next
\* (createNewMetaFile, 101-102), or completed()
FileClosed ==
    \E c \in AtPc("close") :
        /\ listCalls' = IF listCalls[c].err # ""
                        THEN ListCompleted(listCalls, c, listCalls[c].err, _items)
                        ELSE IF listCalls[c].next
                        THEN [listCalls EXCEPT ![c].pc = "openMeta"]
                        ELSE ListCompleted(listCalls, c, "", _items)
        /\ UNCHANGED <<_items, disk, outsideList>>

\* the callback of FS.open(metaFile, 'w') (102-121)
MetaFileOpened(ok) ==
    \E c \in AtPc("openMeta") :
        /\ ok \/ MayFail(c)
        /\ IF ~ok
           THEN /\ listCalls' = ListCompleted(listCalls, c, "EIO", _items)
                /\ UNCHANGED disk
           ELSE /\ disk' = Opened(disk, MetaFileOf(listCalls[c].hash, listCalls[c].fileSize))
                /\ listCalls' = [listCalls EXCEPT ![c].pc = "writeMeta"]
        /\ UNCHANGED <<_items, outsideList>>

\* the callback of FS.write(fd, JSON.stringify(meta, null, 2)) (121-131)
MetaFileWritten(ok) ==
    \E c \in AtPc("writeMeta") :
        LET tempFile == TempFileOf(listCalls[c].hash, listCalls[c].fileSize)
            metaFile == MetaFileOf(listCalls[c].hash, listCalls[c].fileSize)
            written == MetaWritten(disk, metaFile, listCalls[c].fileName,
                                   Chunks(listCalls[c].fileSize))
        IN  /\ ok \/ MayFail(c)
            /\ IF ok
               THEN /\ disk' = written
                    /\ _items' = [_items EXCEPT !.list =
                                     Append(@, DownloadItem(written, tempFile, metaFile))]
                    /\ listCalls' = [listCalls EXCEPT ![c].newItem = Len(_items.list) + 1,
                                                      ![c].pc = "close", ![c].err = "",
                                                      ![c].next = FALSE]
               ELSE /\ listCalls' = [listCalls EXCEPT ![c].pc = "close", ![c].err = "EIO",
                                                      ![c].next = FALSE]
                    /\ UNCHANGED <<_items, disk>>
            /\ UNCHANGED outsideList

ListNext ==
    \/ Items
    \/ \E ok \in BOOLEAN : ReaddirCallback(ok)
    \/ \E link \in Links : AddByLink(link)
    \/ \E ok \in BOOLEAN : TempFileOpened(ok)
    \/ \E ok \in BOOLEAN : TempFileWritten(ok)
    \/ FileClosed
    \/ \E ok \in BOOLEAN : MetaFileOpened(ok)
    \/ \E ok \in BOOLEAN : MetaFileWritten(ok)

\* the DownloadList of a client whose downloads() has constructed it
ListInit ==
    /\ StoppedClient
    /\ config = [keySizeValid |-> TRUE]
    /\ conns = <<>>
    /\ sender = NoSender
    /\ receiver = NoReceiver
    /\ _downloads = 1
    /\ _library = Null
    /\ accessors = [calls |-> <<>>, lists |-> 1, libraries |-> 0]
    /\ tempDir = "dir"
    /\ _items = UndefinedItems
    /\ disk \in InitialDisks
    /\ listCalls = <<>>
    /\ NoLater

SpecList == ListInit /\ [][ListNext]_vars

(***************************************************************************)
(* Part 6: disposable objects (objects.ts, factory.ts).                    *)
(***************************************************************************)

\* the base classes; what the disposing() of a subclass does with the
\* functions it is given (the base's own does nothing, "dummy")
Bases == {"CommonEventObjectBase", "RaisePropertyChangedBase"}

Logics == {"dummy", "resolves", "rejects", "throws"}

\* an object just constructed; throwing: a handler of its 'propertyChanged'
\* throws; raised: the events it has raised; ran: the times its disposing()
\* has run
Disposable(base, logic, throwing) ==
    [base |-> base, logic |-> logic, throwing |-> throwing,
     isDisposed |-> FALSE, raised |-> <<>>, ran |-> 0]

\* CommonEventObjectBase.dispose(callback) (objects.ts 38-114): the object
\* afterwards and what the callback got ("pending": it was not called)
DisposeWithCallback(o) ==
    IF o.isDisposed THEN [obj |-> o, outcome |-> "pending"]
    ELSE LET resolveInvoked == FALSE
             rejectInvoked == TRUE
             resolves == o.logic = "resolves" /\ ~(resolveInvoked \/ rejectInvoked)
             rejects == o.logic \in {"rejects", "throws"} /\ ~(rejectInvoked \/ resolveInvoked)
         IN  [obj |-> [o EXCEPT !.ran = @ + 1,
                                !.isDisposed = resolves,
                                !.raised = @ \o <<"disposing">>
                                             \o (IF resolves THEN <<"isDisposed">> ELSE <<>>)
                                             \o (IF resolves /\ ~o.throwing
                                                 THEN <<"disposed">> ELSE <<>>)],
              outcome |-> IF resolves /\ ~o.throwing THEN "resolved"
                          ELSE IF rejects THEN "rejected"
                          ELSE "pending"]

\* RaisePropertyChangedBase.dispose(tag) (factory.ts 28-63): the object
\* afterwards and how the promise it returns has settled
DisposeWithPromise(o) ==
    IF o.isDisposed THEN [obj |-> o, outcome |-> "pending"]
    ELSE IF o.logic = "throws"
    THEN [obj |-> [o EXCEPT !.ran = @ + 1], outcome |-> "rejected"]
    ELSE [obj |-> [o EXCEPT !.ran = @ + 1, !.isDisposed = TRUE,
                            !.raised = Append(@, "isDisposed")],
          outcome |-> IF o.logic = "resolves" THEN "resolved"
                      ELSE IF o.logic = "rejects" \/ o.throwing THEN "rejected"
                      ELSE "pending"]

Dispose(o) ==
    IF o.base = "CommonEventObjectBase" THEN DisposeWithCallback(o)
    ELSE DisposeWithPromise(o)

\* completed() of DownloadListImpl.disposing (factory.ts 376-391): the
\* promise of the list's dispose() settles, unless it has
ListDisposingCompleted(d) ==
    IF d.cascade.settled # "pending" THEN d
    ELSE [d EXCEPT !.cascade.settled =
                      IF Len(d.cascade.errors) > 0 THEN "rejected" ELSE "resolved"]

\* disposeNext of DownloadListImpl.disposing (factory.ts 399-422): dispose
\* the item at position i and wait for its promise
DisposeNext(d) ==
    IF d.cascade.remainingItems < 1 THEN ListDisposingCompleted(d)
    ELSE IF d.cascade.i + 1 > Len(d._downloads) THEN ListDisposingCompleted(d)
    ELSE LET id == d._downloads[d.cascade.i + 1]
             r == DisposeWithPromise(d.items[id])
         IN  [d EXCEPT !.items[id] = r.obj,
                       !.calls[id] = @ + 1,
                       !.cascade.item = id,
                       !.cascade.waits = r.outcome]

\* the items of kinds k, in a list not yet disposed
NewList(kinds) ==
    [items |-> [id \in DOMAIN kinds |->
                   Disposable("RaisePropertyChangedBase", kinds[id][1], kinds[id][2])],
     calls |-> [id \in DOMAIN kinds |-> 0],
     _downloads |-> [id \in DOMAIN kinds |-> id],
     list |-> Disposable("RaisePropertyChangedBase", "cascade", FALSE),
     cascade |-> [settled |-> "none", remainingItems |-> 0, i |-> 0, errors |-> <<>>,
                  item |-> 0, waits |-> "pending"],
     obj |-> Disposable("RaisePropertyChangedBase", "dummy", FALSE),
     outcomes |-> <<>>]

\* what a list holds: DownloadItemImpl objects (disposing() of the base),
\* with or without a 'propertyChanged' handler that throws, and objects of a
\* subclass whose disposing() resolves
ItemKinds == {<<"dummy", FALSE>>, <<"dummy", TRUE>>, <<"resolves", FALSE>>}

ItemLists == UNION {[1..n -> ItemKinds] : n \in 0..MaxItems}

\* obj.dispose() on the object by itself
DisposeObject ==
    /\ Len(disposal.outcomes) < MaxDisposals
    /\ LET r == Dispose(disposal.obj)
       IN  disposal' = [disposal EXCEPT !.obj = r.obj,
                                        !.outcomes = Append(@, r.outcome)]
    /\ UNCHANGED outsideDisposal

\* list.dispose(tag) (factory.ts 28-63, 367-427), for the first time
DisposeList ==
    /\ ~disposal.list.isDisposed
    /\ LET started == [disposal EXCEPT !.list.ran = @ + 1,
                                       !.cascade.settled = "pending",
                                       !.cascade.remainingItems = Len(disposal._downloads)]
       IN  disposal' = [DisposeNext(started) EXCEPT !.list.isDisposed = TRUE,
                                                    !.list.raised = Append(@, "isDisposed")]
    /\ UNCHANGED outsideDisposal

\* the reaction to the promise of an item's dispose() (factory.ts 410-422):
\* fulfilled: countDown(), then the item leaves the list; rejected: the error
\* is kept, the next position taken, countDown()
ItemDisposed ==
    /\ disposal.cascade.settled # "none"
    /\ disposal.cascade.waits # "pending"
    /\ LET counted == [disposal EXCEPT !.cascade.waits = "pending",
                                       !.cascade.remainingItems = @ - 1]
       IN  disposal' =
             IF disposal.cascade.waits = "resolved"
             THEN LET next == DisposeNext(counted)
                      i == disposal.cascade.i
                  IN  [next EXCEPT !._downloads =
                          SubSeq(@, 1, i) \o SubSeq(@, i + 2, Len(@))]
             ELSE DisposeNext([counted EXCEPT
                                  !.cascade.errors = Append(@, disposal.cascade.item),
                                  !.cascade.i = @ + 1])
    /\ UNCHANGED outsideDisposal

DisposalNext == DisposeObject \/ DisposeList \/ ItemDisposed

\* an object of either base class with any disposing(), and a list of items
DisposalInit ==
    /\ StoppedClient
    /\ config = [keySizeValid |-> TRUE]
    /\ conns = <<>>
    /\ sender = NoSender
    /\ receiver = NoReceiver
    /\ NoAccess
    /\ tempDir = "dir"
    /\ NoList
    /\ pair = Null
    /\ hashItem = Null
    /\ collection = Null
    /\ probe = Null
    /\ dboy = Null
    /\ \E kinds \in ItemLists, base \in Bases, logic \in Logics, throwing \in BOOLEAN :
           disposal = [NewList(kinds) EXCEPT !.obj = Disposable(base, logic, throwing)]

SpecDisposal == DisposalInit /\ [][DisposalNext]_vars

(***************************************************************************)
(* Part 7: FileLibraryCollectionItem.hash (libraries.ts).                  *)
(***************************************************************************)

\* bytes are kept as runs: <<[b |-> 65, n |-> 3]>> is the three bytes "AAA";
\* no run is empty and no two neighbours have the same byte
RECURSIVE Runs(_)
Runs(s) ==
    IF s = <<>> THEN <<>>
    ELSE IF Head(s).n = 0 THEN Runs(Tail(s))
    ELSE LET rest == Runs(Tail(s)) IN
         IF rest # <<>> /\ Head(rest).b = Head(s).b
         THEN <<[b |-> Head(s).b, n |-> Head(s).n + Head(rest).n]>> \o Tail(rest)
         ELSE <<Head(s)>> \o rest

RECURSIVE ByteCount(_)
ByteCount(s) == IF s = <<>> THEN 0 ELSE Head(s).n + ByteCount(Tail(s))

\* the first n bytes of s, and s without them
RECURSIVE Take(_, _)
Take(s, n) ==
    IF n <= 0 \/ s = <<>> THEN <<>>
    ELSE IF Head(s).n <= n THEN <<Head(s)>> \o Take(Tail(s), n - Head(s).n)
    ELSE <<[b |-> Head(s).b, n |-> n]>>

RECURSIVE Drop(_, _)
Drop(s, n) ==
    IF n <= 0 \/ s = <<>> THEN s
    ELSE IF Head(s).n <= n THEN Drop(Tail(s), n - Head(s).n)
    ELSE <<[b |-> Head(s).b, n |-> Head(s).n - n]>> \o Tail(s)

\* Crypto.createHash('sha256').update(x).digest('hex'): a digest stands for
\* what was hashed, and different input gives a different digest
Sha256(x) == <<"sha256", x>>

\* FS.read(fd, buff, 0, buff.length, null) (328): the next bytes of the
\* file, up to the length of the buffer
ReadChunk(content, position) == Take(Drop(content, position), CHUNK_SIZE)

\* 339-345: Buffer.alloc(bytesRead), buffer.copy(chunk, 0, 0, chunk.length - 1),
\* and the descriptor of the chunk
ChunkHash(read) ==
    LET bytesRead == ByteCount(read)
        chunk == Runs(Take(read, bytesRead - 1) \o <<[b |-> 0, n |-> 1]>>)
    IN  [hash |-> Sha256(chunk), size |-> ByteCount(chunk)]

\* a variant that hashes the file on every call
HashAgain_Always(item, stats) == TRUE

\* 366-378: whether the file is hashed again
HashAgain(item, stats) ==
    IF item._hash.defined /\ item._lastChange # Null /\ item._size # -1
    THEN item._lastChange # stats.ctime \/ item._size # stats.size
    ELSE TRUE

\* the files: empty, one byte, a chunk, a chunk and a byte, of zeros or of
\* letters, last changed at time 1
FileContents ==
    {Runs(<<[b |-> b, n |-> n]>>) : b \in {0, 65}, n \in {0, 1, CHUNK_SIZE, CHUNK_SIZE + 1}}

\* an item just constructed (294-300) for a file; _size is -1 for null
NewHashItem(content) ==
    [file |-> [content |-> content, mtime |-> 1, ctime |-> 1],
     _hash |-> [defined |-> FALSE, hash |-> <<>>, chunks |-> <<>>],
     _lastChange |-> Null, _size |-> -1,
     calls |-> <<>>, changes |-> 0]

HashCompleted(item, c, err) ==
    [item EXCEPT !.calls[c].pc = "done",
                 !.calls[c].cbs = Append(@, [err |-> err,
                                             hash |-> item._hash.hash,
                                             chunks |-> item._hash.chunks])]

HashAtPc(pc) == {c \in DOMAIN hashItem.calls : hashItem.calls[c].pc = pc}

\* hash(callback) (303-312): FS.open; the caller calls from the callback of
\* the call before
Hash ==
    /\ Len(hashItem.calls) < MaxHashCalls
    /\ \A c \in DOMAIN hashItem.calls : hashItem.calls[c].pc = "done"
    /\ hashItem' = [hashItem EXCEPT !.calls =
           Append(@, [pc |-> "open", file |-> hashItem.file, position |-> 0,
                      hashOfChunks |-> <<>>, computed |-> 0, closeErr |-> FALSE,
                      cbs |-> <<>>])]
    /\ UNCHANGED outsideHashItem

\* the callback of FS.open (313-317, 397): FS.lstat
HashFileOpened(ok) ==
    \E c \in HashAtPc("open") :
        /\ hashItem' = IF ok THEN [hashItem EXCEPT !.calls[c].pc = "lstat"]
                       ELSE HashCompleted(hashItem, c, TRUE)
        /\ UNCHANGED outsideHashItem

\* the callback of FS.lstat (360-394)
HashLstat(ok) ==
    \E c \in HashAtPc("lstat") :
        /\ LET stats == [ctime |-> hashItem.file.ctime,
                         size |-> ByteCount(hashItem.file.content)]
           IN  hashItem' =
                 IF ~ok THEN HashCompleted(hashItem, c, TRUE)
                 ELSE IF HashAgain(hashItem, stats)
                 THEN [hashItem EXCEPT !._lastChange = stats.ctime,
                                       !._size = stats.size,
                                       !._hash = [defined |-> TRUE, hash |-> <<>>,
                                                  chunks |-> <<>>],
                                       !.calls[c].computed = @ + 1,
                                       !.calls[c].pc = "read"]
                 ELSE HashCompleted(hashItem, c, FALSE)
        /\ UNCHANGED outsideHashItem

\* the callback of FS.read (328-351)
HashRead(ok) ==
    \E c \in HashAtPc("read") :
        /\ LET call == hashItem.calls[c]
               read == ReadChunk(hashItem.file.content, call.position)
               chunkHash == ChunkHash(read)
           IN  hashItem' =
                 IF ~ok
                 THEN [hashItem EXCEPT !.calls[c].pc = "close", !.calls[c].closeErr = TRUE]
                 ELSE IF ByteCount(read) < 1
                 THEN [hashItem EXCEPT !._hash.hash = Sha256(call.hashOfChunks),
                                       !.calls[c].pc = "close"]
                 ELSE [hashItem EXCEPT !._hash.chunks = Append(@, chunkHash),
                                       !.calls[c].hashOfChunks = Append(@, chunkHash.hash),
                                       !.calls[c].position = @ + ByteCount(read)]
        /\ UNCHANGED outsideHashItem

\* the callback of FS.close (319-323)
HashFileClosed ==
    \E c \in HashAtPc("close") :
        /\ hashItem' = HashCompleted(hashItem, c, hashItem.calls[c].closeErr)
        /\ UNCHANGED outsideHashItem

\* between two calls, the file is written: its bytes change or stay, its
\* times of modification (mtime) and of change (ctime) move
FileWritten(content) ==
    /\ hashItem.changes < MaxFileChanges
    /\ \A c \in DOMAIN hashItem.calls : hashItem.calls[c].pc = "done"
    /\ hashItem' = [hashItem EXCEPT !.file = [content |-> content,
                                              mtime |-> @.ctime + 1,
                                              ctime |-> @.ctime + 1],
                                    !.changes = @ + 1]
    /\ UNCHANGED outsideHashItem

\* between two calls, the mode, the owner or the name of the file changes:
\* only its time of change (ctime) moves
FileStatusChanged ==
    /\ hashItem.changes < MaxFileChanges
    /\ \A c \in DOMAIN hashItem.calls : hashItem.calls[c].pc = "done"
    /\ hashItem' = [hashItem EXCEPT !.file.ctime = @ + 1, !.changes = @ + 1]
    /\ UNCHANGED outsideHashItem

HashFailures == Cardinality({c \in DOMAIN hashItem.calls :
                               hashItem.calls[c].closeErr
                               \/ \E k \in DOMAIN hashItem.calls[c].cbs :
                                      hashItem.calls[c].cbs[k].err})

HashFsResults == IF HashFailures < MaxFsErrors THEN BOOLEAN ELSE {TRUE}

HashItemNext ==
    \/ Hash
    \/ \E ok \in HashFsResults : HashFileOpened(ok)
    \/ \E ok \in HashFsResults : HashLstat(ok)
    \/ \E ok \in HashFsResults : HashRead(ok)
    \/ HashFileClosed
    \/ \E content \in FileContents : FileWritten(content)
    \/ FileStatusChanged

HashItemInit ==
    /\ StoppedClient
    /\ config = [keySizeValid |-> TRUE]
    /\ conns = <<>>
    /\ sender = NoSender
    /\ receiver = NoReceiver
    /\ NoAccess
    /\ tempDir = "dir"
    /\ NoList
    /\ pair = Null
    /\ disposal = Null
    /\ collection = Null
    /\ probe = Null
    /\ dboy = Null
    /\ \E content \in FileContents : hashItem = NewHashItem(content)

SpecHashItem == HashItemInit /\ [][HashItemNext]_vars

(***************************************************************************)
(* Part 8: a share link rendered by url() (libraries.ts) and parsed as     *)
(* addByLink parses it (downloads.ts).                                     *)
(***************************************************************************)

\* the characters of file names: a, space, | and %
NameChars == {97, 32, 124, 37}

RECURSIVE NamesUpTo(_)
NamesUpTo(n) ==
    IF n = 0 THEN {<<>>}
    ELSE NamesUpTo(n - 1)
             \cup {Append(name, ch) : name \in NamesUpTo(n - 1), ch \in NameChars}

\* 64-83: the link trimmed and matched, and what addByLink takes from it
ParseLink(link) ==
    LET match == RegexMatch(Trim(link)) IN
    IF match.ok
    THEN [ok |-> TRUE, fileName |-> FileNameOf(match), hash |-> HashOf(match),
          fileSize |-> FileSizeOf(match)]
    ELSE [ok |-> FALSE, fileName |-> <<>>, hash |-> 0, fileSize |-> 0]

\* url() of an item with that name, size and hash
RenderLink ==
    /\ probe.stage = "input"
    /\ probe' = [probe EXCEPT !.stage = "rendered",
                              !.link = Url(probe.name, probe.size, probe.hash)]
    /\ UNCHANGED outsideProbe

\* addByLink(link), as far as the link is taken apart
ParseRenderedLink ==
    /\ probe.stage = "rendered"
    /\ probe' = [probe EXCEPT !.stage = "parsed", !.parsed = ParseLink(probe.link)]
    /\ UNCHANGED outsideProbe

LinkNext == RenderLink \/ ParseRenderedLink

\* everything but the probe at rest
OnlyProbe ==
    /\ StoppedClient
    /\ config = [keySizeValid |-> TRUE]
    /\ conns = <<>>
    /\ sender = NoSender
    /\ receiver = NoReceiver
    /\ NoAccess
    /\ tempDir = "dir"
    /\ NoList
    /\ pair = Null
    /\ disposal = Null
    /\ hashItem = Null
    /\ collection = Null
    /\ dboy = Null

LinkInit ==
    /\ OnlyProbe
    /\ \E name \in NamesUpTo(MaxNameLen), size \in {0, 1, CHUNK_SIZE}, hash \in {1, 2} :
           probe = [stage |-> "input", name |-> name, size |-> size, hash |-> hash,
                    link |-> <<>>,
                    parsed |-> [ok |-> FALSE, fileName |-> <<>>, hash |-> 0, fileSize |-> 0]]

SpecLink == LinkInit /\ [][LinkNext]_vars

(***************************************************************************)
(* Part 9: Client.updateConfig (client/client.ts), the share folders.      *)
(***************************************************************************)

\* './shares' and './temp'
DEFAULT_SHARES == <<46, 47, 115, 104, 97, 114, 101, 115>>

DEFAULT_TEMP == <<46, 47, 116, 101, 109, 112>>

\* the entries of a list of share folders: nothing, a space, a, a with a
\* space before it or after it, b
ShareEntries == {<<>>, <<32>>, <<97>>, <<32, 97>>, <<97, 32>>, <<98>>}

RECURSIVE ShareListsUpTo(_)
ShareListsUpTo(n) ==
    IF n = 0 THEN {<<>>}
    ELSE ShareListsUpTo(n - 1)
             \cup {Append(l, e) : l \in ShareListsUpTo(n - 1), e \in ShareEntries}

\* the configurations passed to the constructor: none, one without folders,
\* one with folders but no list of shares, one with a list of shares
Configs ==
    {[given |-> FALSE, folders |-> FALSE, shares |-> FALSE, list |-> <<>>, temp |-> <<>>],
     [given |-> TRUE, folders |-> FALSE, shares |-> FALSE, list |-> <<>>, temp |-> <<>>],
     [given |-> TRUE, folders |-> TRUE, shares |-> FALSE, list |-> <<>>, temp |-> <<116>>]}
        \cup {[given |-> TRUE, folders |-> TRUE, shares |-> TRUE, list |-> l, temp |-> <<>>] :
                 l \in ShareListsUpTo(MaxShares)}

\* Array.prototype.filter with a test on the element, here x => x ? true : false
RECURSIVE NonEmpty(_)
NonEmpty(l) ==
    IF l = <<>> THEN <<>>
    ELSE IF Head(l) # <<>> THEN <<Head(l)>> \o NonEmpty(Tail(l))
    ELSE NonEmpty(Tail(l))

\* Array.prototype.indexOf: the first position of x in l
IndexOf(l, x) == CHOOSE k \in DOMAIN l : l[k] = x /\ \A j \in 1..(k - 1) : l[j] # x

\* a variant that keeps every element
RemoveDuplicates_None(l) == l

\* 672-675: filter((x, pos) => shares.indexOf(x) == pos)
RemoveDuplicates(l) ==
    LET kept == {pos \in DOMAIN l : IndexOf(l, l[pos]) = pos}
        Pick[k \in 0..Len(l)] ==
            IF k = 0 THEN <<>>
            ELSE IF k \in kept THEN Append(Pick[k - 1], l[k]) ELSE Pick[k - 1]
    IN  Pick[Len(l)]

\* updateConfig(cfg) (620-686), folders
UpdateConfig(cfg) ==
    LET temp == IF cfg.given /\ cfg.folders /\ cfg.temp # <<>> THEN cfg.temp
                ELSE DEFAULT_TEMP
        mapped == IF cfg.given /\ cfg.folders /\ cfg.shares
                  THEN NonEmpty([k \in DOMAIN cfg.list |-> TrimName(cfg.list[k])])
                  ELSE <<>>
        unique == RemoveDuplicates(mapped)
    IN  [folders |-> [shares |-> IF Len(unique) < 1 THEN <<DEFAULT_SHARES>> ELSE unique,
                      temp |-> temp]]

\* new Client(cfg) (70-74)
NewClient ==
    /\ ~probe.constructed
    /\ probe' = [probe EXCEPT !.constructed = TRUE, !._config = UpdateConfig(probe.cfg)]
    /\ UNCHANGED outsideProbe

ConfigNext == NewClient

ConfigInit ==
    /\ OnlyProbe
    /\ \E cfg \in Configs :
           probe = [cfg |-> cfg, constructed |-> FALSE,
                    _config |-> [folders |-> [shares |-> <<>>, temp |-> <<>>]]]

SpecConfig == ConfigInit /\ [][ConfigNext]_vars

(***************************************************************************)
(* Part 10: FileLibraryCollection.items (libraries.ts).                    *)
(***************************************************************************)

\* what a collection directory may hold; a path is the sequence of its
\* names, and names are numbers in the order FS.readdir lists them: the
\* files 1 and 2, the directory 3 with the file 1 in it, the link 4 to
\* nothing, the link 5 to the file 1
TreeParts ==
    [a |-> {[path |-> <<1>>, kind |-> "file", target |-> <<>>]},
     b |-> {[path |-> <<2>>, kind |-> "file", target |-> <<>>]},
     d |-> {[path |-> <<3>>, kind |-> "dir", target |-> <<>>],
            [path |-> <<3, 1>>, kind |-> "file", target |-> <<>>]},
     x |-> {[path |-> <<4>>, kind |-> "link", target |-> <<9>>]},
     l |-> {[path |-> <<5>>, kind |-> "link", target |-> <<1>>]}]

Trees == {UNION {TreeParts[k] : k \in ks} : ks \in SUBSET DOMAIN TreeParts}

\* FS.readdir(dir) joined with dir (216): the entries of dir, by name
Readdir(tree, dir) ==
    LET names == {e.path[Len(e.path)] : e \in {e \in tree : Len(e.path) = Len(dir) + 1
                                                     /\ SubSeq(e.path, 1, Len(dir)) = dir}}
        Sorted[k \in 0..Cardinality(names)] ==
            IF k = 0 THEN <<>>
            ELSE Append(Sorted[k - 1],
                        CHOOSE n \in names :
                            Cardinality({m \in names : m < n}) = k - 1)
    IN  [k \in 1..Cardinality(names) |-> Append(dir, Sorted[Cardinality(names)][k])]

\* FS.realpathSync (218): the path a link leads to; <<0>> if it throws
Realpath(tree, x) ==
    LET e == CHOOSE e \in tree : e.path = x IN
    IF e.kind # "link" THEN x
    ELSE IF \E t \in tree : t.path = e.target THEN e.target
    ELSE <<0>>

\* 217-231: the items pushed for the entries xs, in their order
RECURSIVE Pushed(_, _)
Pushed(tree, xs) ==
    IF xs = <<>> THEN <<>>
    ELSE LET x == Realpath(tree, Head(xs)) IN
         IF x # <<0>> /\ (CHOOSE e \in tree : e.path = x).kind = "file"
         THEN <<x>> \o Pushed(tree, Tail(xs))
         ELSE Pushed(tree, Tail(xs))

\* completed (198-207)
CollectionCompleted(col, c) ==
    [col EXCEPT !.calls[c] = [pc |-> "done", cbs |-> <<[err |-> FALSE, items |-> col._items.list]>>]]

\* items(callback) (195-245)
CollectionItems ==
    /\ Len(collection.calls) < MaxScanCalls
    /\ LET c == Len(collection.calls) + 1
           called == [collection EXCEPT !.calls = Append(@, [pc |-> "readdir", cbs |-> <<>>])]
       IN  collection' =
             IF collection._items.undefined
             THEN [called EXCEPT !._items = [undefined |-> FALSE, list |-> <<>>]]
             ELSE CollectionCompleted(called, c)
    /\ UNCHANGED outsideCollection

\* the callback of FS.readdir (216-235)
CollectionReaddir(ok) ==
    \E c \in DOMAIN collection.calls :
        /\ collection.calls[c].pc = "readdir"
        /\ LET pushed == IF ok THEN Pushed(collection.tree, Readdir(collection.tree, <<>>))
                         ELSE <<>>
               scanned == [collection EXCEPT !._items.list = @ \o pushed]
           IN  collection' = CollectionCompleted(scanned, c)
        /\ UNCHANGED outsideCollection

CollectionNext ==
    \/ CollectionItems
    \/ \E ok \in BOOLEAN : CollectionReaddir(ok)

CollectionInit ==
    /\ StoppedClient
    /\ config = [keySizeValid |-> TRUE]
    /\ conns = <<>>
    /\ sender = NoSender
    /\ receiver = NoReceiver
    /\ NoAccess
    /\ tempDir = "dir"
    /\ NoList
    /\ pair = Null
    /\ disposal = Null
    /\ hashItem = Null
    /\ probe = Null
    /\ dboy = Null
    /\ \E tree \in Trees :
           collection = [tree |-> tree, _items |-> UndefinedItems, calls |-> <<>>]

SpecCollection == CollectionInit /\ [][CollectionNext]_vars

(***************************************************************************)
(* Part 11: DeliveryBoy.connect (index.ts).                                *)
(***************************************************************************)

\* what remoteValidator is: not set, or a function that returns nothing,
\* true or false, returns a promise, or throws
Validators == {"none", "undefined", "true", "false", "promise", "throws"}

\* toBooleanSafe(accepted, true) (70): nothing counts as true
ToBooleanSafe(v) == v # "false"

\* validateConnection (248-280) up to its return: the state of its promise
ValidateConnection(validator) ==
    CASE validator = "none" -> [pc |-> "validated", accepted |-> "true"]
      [] validator = "undefined" -> [pc |-> "validated", accepted |-> "true"]
      [] validator \in {"true", "false"} -> [pc |-> "validated", accepted |-> validator]
      [] validator = "promise" -> [pc |-> "validating", accepted |-> "undefined"]
      [] validator = "throws" -> [pc |-> "invalid", accepted |-> "undefined"]

DboyAtPc(pc) == {c \in DOMAIN dboy.calls : dboy.calls[c].pc = pc}

\* connect(host, port) (50-63): the promise, and simpleSocket.connect
DboyConnect ==
    /\ Len(dboy.calls) < MaxConnects
    /\ dboy' = [dboy EXCEPT !.calls =
           Append(@, [pc |-> "connecting", promise |-> "pending", accepted |-> "undefined",
                      emitted |-> <<>>])]
    /\ UNCHANGED outsideDboy

\* the reactions to simpleSocket.connect (66, 99-108)
SocketConnected(ok) ==
    \E c \in DboyAtPc("connecting") :
        /\ dboy' =
             IF ok
             THEN LET v == ValidateConnection(dboy.remoteValidator) IN
                  [dboy EXCEPT !.calls[c].pc = v.pc, !.calls[c].accepted = v.accepted]
             ELSE [dboy EXCEPT !.calls[c].pc = "idle", !.calls[c].promise = "rejected"]
        /\ UNCHANGED outsideDboy

\* the reactions to the promise of the validator (264-268)
ValidatorSettled(result) ==
    \E c \in DboyAtPc("validating") :
        /\ dboy' = IF result = "rejects"
                   THEN [dboy EXCEPT !.calls[c].pc = "invalid"]
                   ELSE [dboy EXCEPT !.calls[c].pc = "validated",
                                     !.calls[c].accepted = result]
        /\ UNCHANGED outsideDboy

\* the reaction to the resolved promise of validateConnection (94-95) and
\* emitEvent (68-92)
ConnectionValidated ==
    \E c \in DboyAtPc("validated") :
        /\ dboy' =
             IF ToBooleanSafe(dboy.calls[c].accepted)
             THEN [dboy EXCEPT !.calls[c].pc = "idle",
                               !.calls[c].emitted = Append(@, "connect.connected")]
             ELSE [dboy EXCEPT !.calls[c].pc = "ending"]
        /\ UNCHANGED outsideDboy

\* the reaction to the rejected promise of validateConnection (96-98)
ValidationFailed ==
    \E c \in DboyAtPc("invalid") :
        /\ dboy' = [dboy EXCEPT !.calls[c].pc = "idle",
                                !.calls[c].emitted = Append(@, "error.connect")]
        /\ UNCHANGED outsideDboy

\* the reactions to newConnection.end() (79-85)
SocketEnded ==
    \E c \in DboyAtPc("ending") :
        /\ dboy' = [dboy EXCEPT !.calls[c].pc = "idle",
                                !.calls[c].emitted = Append(@, "connect.reject")]
        /\ UNCHANGED outsideDboy

DboyNext ==
    \/ DboyConnect
    \/ \E ok \in BOOLEAN : SocketConnected(ok)
    \/ \E result \in {"undefined", "true", "false", "rejects"} : ValidatorSettled(result)
    \/ ConnectionValidated
    \/ ValidationFailed
    \/ SocketEnded

DboyInit ==
    /\ StoppedClient
    /\ config = [keySizeValid |-> TRUE]
    /\ conns = <<>>
    /\ sender = NoSender
    /\ receiver = NoReceiver
    /\ NoAccess
    /\ tempDir = "dir"
    /\ NoList
    /\ pair = Null
    /\ disposal = Null
    /\ hashItem = Null
    /\ collection = Null
    /\ probe = Null
    /\ \E validator \in Validators : dboy = [remoteValidator |-> validator, calls |-> <<>>]

SpecDboy == DboyInit /\ [][DboyNext]_vars

(***************************************************************************)
(* Part 12: Connection (connection.ts): sendMessage, readMessage and the   *)
(* handshake, on the two Connection objects of one socket.                 *)
(***************************************************************************)

\* the two ends: the accepting one (ConnectionType.Server), which sends
\* messages of type 3, and the connecting one (ConnectionType.Client), which
\* reads them, as the two clients of unnamed/part_006 do
Sides == {"server", "client"}

OtherSide(side) == IF side = "server" THEN "client" ELSE "server"

\* the length of JSON.stringify({type: t}) for a type of one digit
JSON_LENGTH == 10

\* the lengths Math.floor(Math.random() * 256) (335) is drawn from here:
\* none, the length of a message, the longest
PrefixLengths == {0, JSON_LENGTH, 255}

\* Buffer.concat([randBuff, new Buffer(JSON.stringify(msg))]) (162-165,
\* 293-296): the byte `length`, as many random bytes, the text of the message
DataToSend(length, type) == [length |-> length, type |-> type]

\* extractRandomBuffer (370-387): a buffer of `length` bytes filled from
\* position 1 + length of buff on; `taken` bytes of the text, `pad` zero
\* bytes after them
ExtractRandomBuffer(buff) ==
    IF buff.length > 0
    THEN [type |-> buff.type,
          taken |-> IF buff.length < JSON_LENGTH THEN buff.length ELSE JSON_LENGTH,
          pad |-> IF buff.length > JSON_LENGTH THEN buff.length - JSON_LENGTH ELSE 0]
    ELSE [type |-> buff.type, taken |-> 0, pad |-> 0]

\* JSON.parse(data.toString('utf8')): the message if data is its whole text
\* and nothing else, and a SyntaxError (type -1) otherwise
ParseJson(data) ==
    IF data.taken = JSON_LENGTH /\ data.pad = 0 THEN data.type ELSE -1

NewMessageCall(side, op, type) ==
    [side |-> side, op |-> op, type |-> type, pc |-> "called",
     promise |-> "pending", value |-> 0]

\* createSimplePromiseCompletedAction: the promise of the call settles, once
Settled(p, c, promise, value) ==
    IF p.calls[c].promise = "pending"
    THEN [p EXCEPT !.calls[c].promise = promise, !.calls[c].value = value]
    ELSE p

PairAtPc(pc) == {c \in DOMAIN pair.calls : pair.calls[c].pc = pc}

\* makeHandskakeIfNeeded (114-156) for call c, in the turn of the call: no
\* handshake if one was made, else the handshake of the type of the side
MakeHandskakeIfNeeded(p, c) ==
    LET side == p.calls[c].side IN
    IF p.conn[side]._handskakeMade
    THEN [p EXCEPT !.calls[c].pc = "shaken"]
    ELSE IF side = "server"
    THEN [p EXCEPT !.conn[side].handshakes = @ + 1, !.calls[c].pc = "hello_random"]
    ELSE [p EXCEPT !.conn[side].handshakes = @ + 1, !.calls[c].pc = "hello_read",
                   !.reads[side] = Append(@, [call |-> c, kind |-> "hello"])]

\* sendMessage(msg) (263-320) and readMessage() (201-254), up to their return
MessageCall(side, op, type) ==
    /\ Len(pair.calls) < MaxMessages
    /\ pair' = MakeHandskakeIfNeeded(
                   [pair EXCEPT !.calls = Append(@, NewMessageCall(side, op, type))],
                   Len(pair.calls) + 1)
    /\ UNCHANGED outsidePair

\* makeServerHandshake (158-166): the random buffer is there, the hello
\* message is written
HelloRandom(length) ==
    \E c \in PairAtPc("hello_random") :
        LET side == pair.calls[c].side IN
        /\ pair' = [pair EXCEPT !.wire[OtherSide(side)] = Append(@, DataToSend(length, 2)),
                                !.calls[c].pc = "hello_write"]
        /\ UNCHANGED outsidePair

\* makeServerHandshake (166-168) and makeHandskakeIfNeeded (127-131): the
\* hello message is sent
HelloWritten ==
    \E c \in PairAtPc("hello_write") :
        LET side == pair.calls[c].side IN
        /\ pair' = [pair EXCEPT !.conn[side]._handskakeMade = TRUE,
                                !.calls[c].pc = "shaken"]
        /\ UNCHANGED outsidePair

\* a message arrives and one of the reads waiting on the socket gets it
\* (socket.read() of 84, 223, socket.readJSON() of 240)
MessageRead ==
    \E side \in Sides : \E k \in DOMAIN pair.reads[side] :
        /\ pair.wire[side] # <<>>
        /\ LET r == pair.reads[side][k]
               c == r.call
               buff == Head(pair.wire[side])
               msg == ParseJson(ExtractRandomBuffer(buff))
               taken == [pair EXCEPT !.wire[side] = Tail(@),
                                     !.reads[side] = SubSeq(@, 1, k - 1)
                                                        \o SubSeq(@, k + 1, Len(@))]
           IN  pair' =
                 CASE r.kind = "hello" ->
                        \* makeClientHandshake (84-101), makeHandskakeIfNeeded (138-142)
                        IF msg = -1
                        THEN Settled([taken EXCEPT !.calls[c].pc = "done"],
                                     c, "rejected", -1)
                        ELSE IF msg = 2
                        THEN [taken EXCEPT !.conn[side]._handskakeMade = TRUE,
                                           !.calls[c].pc = "shaken"]
                        ELSE [taken EXCEPT !.conn[side]._handskakeMade = FALSE,
                                           !.calls[c].pc = "end"]
                   [] r.kind = "read" ->
                        \* 223-238
                        IF msg = -1
                        THEN Settled([taken EXCEPT !.calls[c].pc = "done"],
                                     c, "rejected", -1)
                        ELSE Settled([taken EXCEPT !.calls[c].pc = "done"],
                                     c, "resolved", msg)
                   [] r.kind = "readJSON" ->
                        \* 240-244: the text of the whole buffer is no JSON
                        Settled([taken EXCEPT !.calls[c].pc = "done"],
                                c, "rejected", -1)
        /\ UNCHANGED outsidePair

\* the reaction to makeHandskakeIfNeeded (208-248, 278-311) when there is a
\* handshake: a read starts its two reads, a send asks for a random buffer
Shaken ==
    \E c \in PairAtPc("shaken") :
        LET side == pair.calls[c].side IN
        /\ pair' = IF pair.calls[c].op = "readMessage"
                   THEN [pair EXCEPT !.calls[c].pc = "reading",
                                     !.reads[side] = @ \o <<[call |-> c, kind |-> "read"],
                                                            [call |-> c, kind |-> "readJSON"]>>]
                   ELSE [pair EXCEPT !.calls[c].pc = "random"]
        /\ UNCHANGED outsidePair

\* sendMessage (291-303): the random buffer is there, the message is written
MessageRandom(length) ==
    \E c \in PairAtPc("random") :
        LET side == pair.calls[c].side IN
        /\ pair' = [pair EXCEPT !.wire[OtherSide(side)] =
                                     Append(@, DataToSend(length, pair.calls[c].type)),
                                !.calls[c].pc = "write"]
        /\ UNCHANGED outsidePair

\* sendMessage (298-299): the message is sent
MessageWritten ==
    \E c \in PairAtPc("write") :
        /\ pair' = Settled([pair EXCEPT !.calls[c].pc = "done"], c, "resolved",
                           pair.calls[c].type)
        /\ UNCHANGED outsidePair

\* 210-220, 280-290: no handshake, the socket is ended and the call fails
SocketEndedNoHandshake ==
    \E c \in PairAtPc("end") :
        /\ pair' = Settled([pair EXCEPT !.calls[c].pc = "done"], c, "rejected", -2)
        /\ UNCHANGED outsidePair

\* the peer sends something that is no hello message
StrayMessage ==
    /\ pair.strays < MaxStrays
    /\ pair' = [pair EXCEPT !.wire["client"] = Append(@, DataToSend(JSON_LENGTH, 3)),
                            !.strays = @ + 1]
    /\ UNCHANGED outsidePair

PairNext ==
    \/ MessageCall("server", "sendMessage", 3)
    \/ MessageCall("client", "readMessage", 0)
    \/ \E length \in PrefixLengths : HelloRandom(length)
    \/ HelloWritten
    \/ MessageRead
    \/ Shaken
    \/ \E length \in PrefixLengths : MessageRandom(length)
    \/ MessageWritten
    \/ SocketEndedNoHandshake
    \/ StrayMessage

PairInit ==
    /\ StoppedClient
    /\ config = [keySizeValid |-> TRUE]
    /\ conns = <<>>
    /\ sender = NoSender
    /\ receiver = NoReceiver
    /\ NoAccess
    /\ tempDir = "dir"
    /\ NoList
    /\ disposal = Null
    /\ hashItem = Null
    /\ collection = Null
    /\ probe = Null
    /\ dboy = Null
    /\ pair = [conn |-> [side \in Sides |-> [_handskakeMade |-> FALSE, handshakes |-> 0]],
               wire |-> [side \in Sides |-> <<>>],
               reads |-> [side \in Sides |-> <<>>],
               calls |-> <<>>, strays |-> 0]

SpecPair == PairInit /\ [][PairNext]_vars


(***************************************************************************)
(* Part 13: two connections accepted by one listener (client.ts 308-408,   *)
(* 480-482).  One peer is another program that takes the key and then      *)
(* sends part of what the handshake asks for, or nothing, and never        *)
(* closes; the other is connectTo of a client.                             *)
(***************************************************************************)

\* what the stalling peer sends before it falls silent: two bytes of the
\* length, the length without the payload, the length and half of the payload
StallingMessages == {<<1, 0>>, <<2, 0, 0, 0>>, <<2, 0, 0, 0, 9>>}

\* a program connects to the listening server (480-482): the stalling peer or
\* connectTo of a client (103), one of each, in any order
PeerConnects(kind) ==
    /\ \A i \in 1..Len(conns) : conns[i].kind # kind
    /\ _server # Null /\ servers[_server].status = "listening"
    /\ conns' = Append(conns, NewConn(kind))
    /\ UNCHANGED outsideHandshake

\* the steps of the connection the stalling peer made: what the listener does
\* on it, and the one message of the peer
StallingPeerStep ==
    \E i \in Live :
        /\ conns[i].kind = "rogue"
        /\ \/ Accept(i, FALSE)
           \/ ListenerWriteDone(i, TRUE)
           \/ ListenerReadable(i)
           \/ \E bytes \in StallingMessages : RogueSend(i, bytes)

\* the steps of the connection connectTo made, on either side of it
ClientPeerStep ==
    \E i \in Live :
        /\ conns[i].kind = "client"
        /\ \/ \E close \in BOOLEAN : Accept(i, close)
           \/ \E ok \in BOOLEAN : ListenerWriteDone(i, ok)
           \/ ListenerReadable(i)
           \/ \E pwd \in Passwords : ConnectorConnected(i, pwd)
           \/ \E pwd \in Passwords : ConnectorReadable(i, pwd)
           \/ \E ok \in BOOLEAN : ConnectorWriteDone(i, ok)

PeersNext ==
    \/ \E kind \in {"client", "rogue"} : PeerConnects(kind)
    \/ StallingPeerStep
    \/ ClientPeerStep
    \/ \E i \in Live : ConnectorSocketError(i)

SpecPeers == HandshakeInit /\ [][PeersNext]_vars


(***************************************************************************)
(* Part 14: DeliveryBoy.start and DeliveryBoy.stop (index.ts 137-244).     *)
(* dboy.servers are the net.Server objects simpleSocket.listen created,    *)
(* dboy._server the one the DeliveryBoy holds.                             *)
(***************************************************************************)

\* what the caller stored in boy.port: 0, for which the system picks a free
\* port at every listen, or a number of its own
Ports == {0, 5000}

\* the port is free: no server of this process listens on it
PortIsFree(port) ==
    port = 0 \/ \A s \in DOMAIN dboy.servers :
                    ~(dboy.servers[s].status = "listening" /\ dboy.servers[s].port = port)

\* completed(err, result) (141, 220) of call c
StartStopCompleted(boy, c, promise, value) ==
    [boy EXCEPT !.calls[c].pc = "done", !.calls[c].promise = promise,
                !.calls[c].value = value]

NewStartStopCall(op) ==
    [op |-> op, pc |-> "called", promise |-> "pending", value |-> FALSE,
     server |-> Null, held |-> dboy._server]

\* start() (137-209): false if a server is held (144-147), else
\* simpleSocket.listen(port, ...) (149-154)
DboyStart ==
    /\ Len(dboy.calls) < MaxStartStops
    /\ LET c == Len(dboy.calls) + 1
           called == [dboy EXCEPT !.calls = Append(@, NewStartStopCall("start"))]
           s == Len(dboy.servers) + 1
       IN  dboy' = IF dboy._server # Null
                   THEN StartStopCompleted(called, c, "resolved", FALSE)
                   ELSE [called EXCEPT
                            !.servers = Append(@, [status |-> "binding", port |-> dboy.port]),
                            !.calls[c].pc = "listen", !.calls[c].server = s]
    /\ UNCHANGED outsideDboy

\* the promise of simpleSocket.listen settles (197-203): the server listens
\* and is stored, or listening failed (the port is taken, or another error)
DboyListened(ok) ==
    \E c \in DboyAtPc("listen") :
        LET s == dboy.calls[c].server IN
        /\ ok => PortIsFree(dboy.servers[s].port)
        /\ dboy' = IF ok
                   THEN StartStopCompleted([dboy EXCEPT !.servers[s].status = "listening",
                                                        !._server = s],
                                           c, "resolved", TRUE)
                   ELSE StartStopCompleted([dboy EXCEPT !.servers[s].status = "failed"],
                                           c, "rejected", FALSE)
        /\ UNCHANGED outsideDboy

\* stop() (216-244): false if no server is held (223-227), else
\* oldServer.close(cb); a server that listens stops listening at once, one
\* that does not hands an error to cb
DboyStop ==
    /\ Len(dboy.calls) < MaxStartStops
    /\ LET c == Len(dboy.calls) + 1
           called == [dboy EXCEPT !.calls = Append(@, NewStartStopCall("stop"))]
           oldServer == dboy._server
       IN  dboy' = IF oldServer = Null
                   THEN StartStopCompleted(called, c, "resolved", FALSE)
                   ELSE IF dboy.servers[oldServer].status = "listening"
                   THEN [called EXCEPT !.servers[oldServer].status = "closing",
                                       !.calls[c].pc = "close",
                                       !.calls[c].server = oldServer]
                   ELSE [called EXCEPT !.calls[c].pc = "closeFailed",
                                       !.calls[c].server = oldServer]
    /\ UNCHANGED outsideDboy

\* the callback of oldServer.close (229-238)
DboyClosed ==
    \/ \E c \in DboyAtPc("close") :
           /\ dboy' = StartStopCompleted(
                          [dboy EXCEPT !.servers[dboy.calls[c].server].status = "closed",
                                       !._server = Null],
                          c, "resolved", TRUE)
           /\ UNCHANGED outsideDboy
    \/ \E c \in DboyAtPc("closeFailed") :
           /\ dboy' = StartStopCompleted(dboy, c, "rejected", FALSE)
           /\ UNCHANGED outsideDboy

DboyServerNext ==
    \/ DboyStart
    \/ \E ok \in BOOLEAN : DboyListened(ok)
    \/ DboyStop
    \/ DboyClosed

\* a DeliveryBoy just constructed, its port set by the caller
DboyServerInit ==
    /\ StoppedClient
    /\ config = [keySizeValid |-> TRUE]
    /\ conns = <<>>
    /\ sender = NoSender
    /\ receiver = NoReceiver
    /\ NoAccess
    /\ tempDir = "dir"
    /\ NoList
    /\ pair = Null
    /\ disposal = Null
    /\ hashItem = Null
    /\ collection = Null
    /\ probe = Null
    /\ \E port \in Ports :
           dboy = [port |-> port, _server |-> Null, servers |-> <<>>, calls |-> <<>>]

SpecDboyServer == DboyServerInit /\ [][DboyServerNext]_vars

Init == LifeInit

Next == LifeNext

Spec == Init /\ [][Next]_vars


(***************************************************************************)
(* Claims about the lifecycle                                              *)
(***************************************************************************)
Transitional == {CLIENT_STATE_STARTING, CLIENT_STATE_STOPPING}

\* the step is a call of operation op; its call id is Len(calls')
IsCall(op) ==
    /\ Len(calls') = Len(calls) + 1
    /\ calls'[Len(calls')].op = op

StateEvents(tr) == {i \in 1..Len(tr) : tr[i].ev = "state"}

CbEvents(tr) == {i \in 1..Len(tr) : tr[i].ev = "cb"}

\* the four transitions of the state machine, each with its cause
FourTransitions ==
    \/ /\ _state = CLIENT_STATE_STOPPED /\ _state' = CLIENT_STATE_STARTING
       /\ handler' \in {"start", "toggle"}
    \/ /\ _state = CLIENT_STATE_STARTING /\ _state' = CLIENT_STATE_RUNNING
       /\ handler' = "listening"
       /\ _server' # Null /\ servers'[_server'].status = "listening"
       /\ _key' = _server'
    \/ /\ _state = CLIENT_STATE_RUNNING /\ _state' = CLIENT_STATE_STOPPING
       /\ handler' \in {"stop", "toggle"}
    \/ /\ _state = CLIENT_STATE_STOPPING /\ _state' = CLIENT_STATE_STOPPED
       /\ handler' = "close"
       /\ _server # Null /\ servers'[_server].status = "closed"

\* the transitions of the error paths: the listener emits 'error' while the
\* client is Starting or Running, or closing the listener reports an error
ErrorTransitions ==
    \/ /\ _state \in {CLIENT_STATE_STARTING, CLIENT_STATE_RUNNING}
       /\ _state' = CLIENT_STATE_STOPPED
       /\ handler' \in {"listenError", "acceptError"}
    \/ /\ _state = CLIENT_STATE_STOPPING /\ _state' = CLIENT_STATE_RUNNING
       /\ handler' = "close"
       /\ trace'[Len(trace')].err

\* C1 (as claimed): every change of the lifecycle state is one of exactly the
\* four transitions Stopped->Starting (start), Starting->Running (listener bound
\* and key pair generated), Running->Stopping (stop), Stopping->Stopped
\* (listener closed).
C1_OnlyFourTransitions == [][_state' # _state => FourTransitions]_vars

\* C1 (amended): every change of the lifecycle state is one of the four
\* transitions, or a fall back to Stopped from Starting or Running when the
\* listener emits 'error', or a fall back to Running from Stopping when closing
\* the listener reports an error.
C1_TransitionsWithErrorPaths ==
    [][_state' # _state => (FourTransitions \/ ErrorTransitions)]_vars

\* C1 witness: a failed bind has taken the client from Starting back to Stopped
C1_Witness ==
    /\ handler = "listenError"
    /\ _state = CLIENT_STATE_STOPPED
    /\ Len(trace) = 2 /\ trace[1].ev = "state"

\* what toggle() does in the step that calls it
ToggleStep ==
    LET c == Len(calls') IN
    /\ _state = CLIENT_STATE_RUNNING =>
           /\ _state' = CLIENT_STATE_STOPPING
           /\ servers'[_server].stopCall = c
           /\ servers'[_server].status = "closing"
    /\ _state = CLIENT_STATE_STOPPED =>
           /\ _state' = CLIENT_STATE_STARTING
           /\ \E s \in ServerIds :
                  /\ servers[s].status = "none"
                  /\ servers'[s].status = "binding"
                  /\ servers'[s].startCall = c
    /\ _state \in Transitional =>
           /\ calls'[c].cbs = <<[err |-> TRUE, st |-> _state]>>
           /\ UNCHANGED <<_state, _server, _key, servers>>

ToggleCalls == {c \in 1..Len(calls) : calls[c].op = "toggle"}

\* C2 (as claimed): toggle() called in Running ends in Stopped, called in
\* Stopped ends in Running, and called in Starting or Stopping reports an error
\* and leaves the state unchanged: whenever the callback of a toggle() is
\* invoked, the state is the one the claim names.
C2_ToggleEndsInTarget ==
    \A c \in ToggleCalls : \A i \in 1..Len(calls[c].cbs) :
        LET r == calls[c].cbs[i] IN
        /\ calls[c].at = CLIENT_STATE_RUNNING => r.st = CLIENT_STATE_STOPPED
        /\ calls[c].at = CLIENT_STATE_STOPPED => r.st = CLIENT_STATE_RUNNING
        /\ calls[c].at \in Transitional => r.err /\ r.st = calls[c].at

\* the outcome of a toggle(): what its callback receives, and in which state
ToggleOutcome ==
    \A c \in ToggleCalls : \A i \in 1..Len(calls[c].cbs) :
        LET r == calls[c].cbs[i] IN
        /\ calls[c].at = CLIENT_STATE_RUNNING =>
               IF r.err THEN r.st = CLIENT_STATE_RUNNING ELSE r.st = CLIENT_STATE_STOPPED
        /\ calls[c].at = CLIENT_STATE_STOPPED =>
               IF r.err
               THEN r.st \in {CLIENT_STATE_STOPPED, CLIENT_STATE_STARTING}
               ELSE r.st = CLIENT_STATE_RUNNING
        /\ calls[c].at \in Transitional => r.err /\ r.st = calls[c].at /\ i = 1

\* C2 (amended): toggle() called in Running performs stop() and has ended in
\* Stopped when its callback reports success; called in Stopped it performs
\* start() and has ended in Running when its callback reports success, while a
\* listener error ends it in Stopped and a failed key-pair generation leaves it
\* in Starting, the error being reported to the caller; called in Starting or
\* Stopping it reports an error to the caller, starts no transition and leaves
\* the state unchanged.
C2_TogglePerformsStartOrStop ==
    /\ [][IsCall("toggle") => ToggleStep]_vars
    /\ []ToggleOutcome

\* C2 witness: a toggle() called in Stopped has reported success in Running
C2_Witness ==
    \E c \in ToggleCalls :
        /\ calls[c].at = CLIENT_STATE_STOPPED
        /\ calls[c].cbs = <<[err |-> FALSE, st |-> CLIENT_STATE_RUNNING]>>
        /\ _state = CLIENT_STATE_RUNNING

\* C3: start() or stop() called while the client is Starting or Stopping waits
\* for the in-flight transition: its callback is invoked at most once, and only
\* when the state has settled in Running or Stopped.
C3_WaitsForTransition ==
    \A c \in 1..Len(calls) :
        (calls[c].op \in {"start", "stop"} /\ calls[c].at \in Transitional) =>
            /\ Len(calls[c].cbs) <= 1
            /\ \A i \in 1..Len(calls[c].cbs) :
                   calls[c].cbs[i].st \in {CLIENT_STATE_RUNNING, CLIENT_STATE_STOPPED}

\* C4: start() called in Running and stop() called in Stopped invoke the
\* callback at once with no error, leave the state, the listener and the key
\* pair unchanged and raise no 'state' notification.
C4_NoOpSucceeds ==
    [][((IsCall("start") /\ _state = CLIENT_STATE_RUNNING) \/
        (IsCall("stop") /\ _state = CLIENT_STATE_STOPPED)) =>
           /\ calls'[Len(calls')].cbs = <<[err |-> FALSE, st |-> _state]>>
           /\ trace' = <<CbEv(Len(calls'), FALSE, _state)>>
           /\ StateEvents(trace') = {}
           /\ UNCHANGED <<_state, _server, _key, servers>>]_vars

\* C4 witness: a start() called in Running has returned through its callback
C4_Witness ==
    /\ handler = "start"
    /\ _state = CLIENT_STATE_RUNNING
    /\ calls[Len(calls)].at = CLIENT_STATE_RUNNING
    /\ calls[Len(calls)].cbs = <<[err |-> FALSE, st |-> CLIENT_STATE_RUNNING]>>

\* C5: in every reachable state, a Running client holds a bound listener and
\* the key pair generated for this Running period, and a Stopped client holds
\* neither a listener nor a key pair.
C5_ListenerAndKeyFollowState ==
    /\ _state = CLIENT_STATE_RUNNING =>
           /\ _server # Null
           /\ servers[_server].status = "listening"
           /\ _key = _server
    /\ _state = CLIENT_STATE_STOPPED =>
           /\ _server = Null
           /\ _key = Null

\* C6: every lifecycle transition raises exactly one 'state' notification, a
\* handler of which reads the new state, and raises it before the handler
\* invokes any callback.
C6_OneNotificationPerTransition ==
    [][_state' # _state =>
           /\ Cardinality(StateEvents(trace')) = 1
           /\ \A i \in StateEvents(trace') : trace'[i].val = _state'
           /\ \A i \in StateEvents(trace') : \A j \in CbEvents(trace') : i < j]_vars

\* C6 witness: the listener is bound, the notification of Running was raised
\* and then the callback of start() invoked
C6_Witness ==
    /\ handler = "listening"
    /\ _state = CLIENT_STATE_RUNNING
    /\ Len(trace) = 2
    /\ trace[1] = StateEv(CLIENT_STATE_RUNNING)
    /\ trace[2].ev = "cb"


\* C34: whenever a start() or stop() called in Running or Stopped has invoked
\* its callback, with or without an error, the state was Running or Stopped
\* at that moment: a failed start has not left the client in Starting, a
\* failed stop has not left it in Stopping.
C34_CallbackAtRest ==
    \A c \in 1..Len(calls) :
        (calls[c].op \in {"start", "stop"} /\ calls[c].at \notin Transitional) =>
            \A k \in 1..Len(calls[c].cbs) :
                calls[c].cbs[k].st \in {CLIENT_STATE_RUNNING, CLIENT_STATE_STOPPED}

WaitingCalls == {c \in 1..Len(calls) : calls[c].op = "whenRunningOrStopped"}

\* C36: every call of whenRunningOrStopped() that has returned has invoked
\* its callback at most once, without error and while the state was Running
\* or Stopped, and exactly once if it was called in Running or Stopped; a call
\* made in Starting or Stopping has not invoked it before the transition
\* settled.
C36_InvokedOnceAtRest ==
    \A c \in WaitingCalls :
        /\ Len(calls[c].cbs) <= 1
        /\ calls[c].at \notin Transitional => Len(calls[c].cbs) = 1
        /\ \A k \in 1..Len(calls[c].cbs) :
               /\ ~calls[c].cbs[k].err
               /\ calls[c].cbs[k].st \in {CLIENT_STATE_RUNNING, CLIENT_STATE_STOPPED}

(***************************************************************************)
(* Claims about the handshake                                              *)
(***************************************************************************)
Count(h, e) == Cardinality({i \in 1..Len(h) : h[i] = e})

Has(h, e) == \E i \in 1..Len(h) : h[i] = e

\* if b happened, a happened before it
Precedes(h, a, b) ==
    \A j \in 1..Len(h) : h[j] = b => \E i \in 1..(j - 1) : h[i] = a

HandshakeEvents ==
    {"L_sentKey", "C_recvKey", "C_sentPwd", "L_recvPwd", "L_sentOK", "L_connected",
     "C_recvOK", "C_callback"}

\* C7: on one connection between handleNewConnection and connectTo the
\* handshake runs in strict order: the listener sends the public key, then the
\* connector, having received it, sends the encrypted password, then the
\* listener, having received and decrypted it, sends OK; the listener raises
\* 'connected' only after OK was sent and the connector's callback gets the
\* channel only after OK was received; no step happens twice.
C7_HandshakeOrder ==
    \A i \in Live : conns[i].kind = "client" =>
        LET h == conns[i].hist IN
        /\ \A e \in HandshakeEvents : Count(h, e) <= 1
        /\ Precedes(h, "L_sentKey", "C_recvKey")
        /\ Precedes(h, "C_recvKey", "C_sentPwd")
        /\ Precedes(h, "C_sentPwd", "L_recvPwd")
        /\ Precedes(h, "L_recvPwd", "L_sentOK")
        /\ Precedes(h, "L_sentOK", "L_connected")
        /\ Precedes(h, "L_sentOK", "C_recvOK")
        /\ Precedes(h, "C_recvOK", "C_callback")
        /\ (Has(conns[i].lRaised, "connected") <=> Has(h, "L_connected"))
        /\ ((\E j \in 1..Len(conns[i].cbs) : ~conns[i].cbs[j].err) <=> Has(h, "C_callback"))

\* C7 witness: a handshake that completed on both sides
C7_Witness ==
    \E i \in Live :
        /\ conns[i].kind = "client"
        /\ conns[i].hist = <<"L_sentKey", "C_recvKey", "C_sentPwd", "L_recvPwd",
                             "L_sentOK", "L_connected", "C_recvOK", "C_callback">>

\* a step of the server handshake has failed: a write reported an error, the
\* announced length of the password is invalid, a read came back short, or
\* the password does not decrypt
HandshakeStepFailed(r, key) ==
    \/ r.lWriteErr
    \/ /\ r.lLenBuf # <<>>
       /\ \/ Len(r.lLenBuf) # 4
          \/ ReadUInt32LE(r.lLenBuf) < 1
          \/ ReadUInt32LE(r.lLenBuf) > MAX_MSG_LENGTH
    \/ /\ r.lEncBuf # <<>>
       /\ \/ Len(r.lEncBuf) # ReadUInt32LE(r.lLenBuf)
          \/ ~RsaDecrypt(key, r.lEncBuf).ok

\* every step of the server handshake has succeeded
HandshakeStepsSucceeded(r, key) ==
    /\ ~r.lWriteErr
    /\ Has(r.hist, "L_sentKey")
    /\ Len(r.lLenBuf) = 4
    /\ ReadUInt32LE(r.lLenBuf) \in 1..MAX_MSG_LENGTH
    /\ Len(r.lEncBuf) = ReadUInt32LE(r.lLenBuf)
    /\ RsaDecrypt(key, r.lEncBuf).ok
    /\ r.lChan = RsaDecrypt(key, r.lEncBuf).data
    /\ Has(r.hist, "L_sentOK")

\* C8: for an accepted connection that no 'connecting' handler rejected,
\* 'connected' is raised at most once and only after every step of the server
\* handshake succeeded; if a step fails the connection is closed, 'connected'
\* is not raised, and nothing else is raised either.
C8_ConnectedOnlyAfterHandshake ==
    \A i \in Live : ~conns[i].rejected =>
        LET r == conns[i] IN
        /\ Count(r.lRaised, "connected") <= 1
        /\ Has(r.lRaised, "connected") => HandshakeStepsSucceeded(r, r.lKey)
        /\ HandshakeStepFailed(r, r.lKey) =>
               /\ r.lClosed
               /\ \A j \in 1..Len(r.lRaised) : r.lRaised[j] = "connecting"

\* C8 witness: a password that does not decrypt has closed the connection
C8_Witness ==
    \E i \in Live :
        /\ ~conns[i].rejected
        /\ Len(conns[i].lLenBuf) = 4
        /\ Len(conns[i].lEncBuf) = ReadUInt32LE(conns[i].lLenBuf)
        /\ ~RsaDecrypt(conns[i].lKey, conns[i].lEncBuf).ok
        /\ conns[i].lClosed

\* C9: if a handler of 'connecting' sets close, the accepted connection is
\* closed in handleNewConnection itself: nothing is written to it, no step of
\* the handshake runs and 'connected' is never raised for it.
C9_RejectedIsClosedAtOnce ==
    \A i \in Live : conns[i].rejected =>
        LET r == conns[i] IN
        /\ r.lClosed /\ r.lpc = "closed"
        /\ r.lWrites = 0 /\ r.lOut = <<>> /\ r.cIn = <<>>
        /\ r.lLenBuf = <<>> /\ r.lEncBuf = <<>> /\ r.lChan = <<>>
        /\ \A e \in HandshakeEvents : ~Has(r.hist, e)
        /\ r.lRaised = <<"connecting">>

\* C9 witness: a rejected connection, the connector still connected to it
C9_Witness ==
    \E i \in Live : conns[i].rejected /\ conns[i].kind = "client" /\ ~conns[i].cDestroyed

\* C10: when the handshake has completed, the key of the listener's channel
\* is the random password the connector drew for this connection, and so is
\* the key of the channel connectTo hands to its callback (stated for each
\* side's completion on its own, which covers the completion of both).
C10_SameKeyOnBothSides ==
    \A i \in Live : conns[i].kind = "client" =>
        LET r == conns[i] IN
        /\ Has(r.lRaised, "connected") => (r.cPwd \in Passwords /\ r.lChan = r.cPwd)
        /\ \A j \in 1..Len(r.cbs) : ~r.cbs[j].err =>
               /\ r.cPwd \in Passwords
               /\ r.cbs[j].chan = r.cPwd
               /\ r.lChan = r.cPwd

\* C10 witness: both sides hold a channel
C10_Witness ==
    \E i \in Live :
        /\ conns[i].kind = "client"
        /\ Has(conns[i].lRaised, "connected")
        /\ conns[i].cbs = <<[err |-> FALSE, chan |-> conns[i].cPwd]>>
        /\ conns[i].lChan = conns[i].cPwd


(***************************************************************************)
(* Claims about connectTo                                                  *)
(***************************************************************************)
Connectors == {i \in Live : conns[i].kind \in {"client", "outbound"}}

\* connectTo has found the length prefix of the frame that follows the
\* password, and the frame has no payload: 'no message'
NoMessage(r) == r.cpc = "rOkData" /\ ReadUInt32LE(r.cLenBuf) = 0

\* connectTo has read the frame that follows the password and it is not "OK"
OtherMessage(r) ==
    /\ r.cMsg # <<>>
    /\ ~(JsonParse(r.cMsg).ok /\ JsonParse(r.cMsg).type = 0)

\* the last thing connectTo did: destroy the socket and report an error
ConnectFailed(r) ==
    /\ r.cpc = "failed"
    /\ r.cDestroyed
    /\ r.cbs # <<>>
    /\ r.cbs[Len(r.cbs)].err /\ r.cbs[Len(r.cbs)].chan = <<>>

\* C11: connectTo hands the channel to its callback only if the first frame
\* read after the password is a message of type 0; if that message has another
\* type or is absent ('no message'), or if a transport error occurred,
\* connectTo has reported an error, handed over no channel and destroyed the
\* socket.
C11_ConnectYieldsChannelOnlyAfterOk ==
    \A i \in Connectors :
        LET r == conns[i] IN
        /\ \A k \in 1..Len(r.cbs) :
               ~r.cbs[k].err =>
                   /\ r.cMsg = JsonStringify([type |-> 0])
                   /\ Precedes(r.hist, "C_sentPwd", "C_recvOK")
                   /\ r.cbs[k].chan = r.cPwd
        /\ OtherMessage(r) => ConnectFailed(r)
        /\ NoMessage(r) => ConnectFailed(r)
        /\ r.cpc = "failed" => ConnectFailed(r)

\* C12: a length prefix of 0 or above 16,777,215 read during the handshake is
\* rejected before any payload byte is read: the listener has closed the
\* connection without raising 'connected', connectTo has failed with an error.
C12_BadLengthRejected ==
    \A i \in Live :
        LET r == conns[i]
            bad(b) == Len(b) = 4 /\ (ReadUInt32LE(b) < 1 \/ ReadUInt32LE(b) > MAX_MSG_LENGTH)
        IN
        /\ bad(r.lLenBuf) =>
               /\ r.lClosed /\ r.lEncBuf = <<>>
               /\ ~Has(r.lRaised, "connected")
        /\ (i \in Connectors /\ bad(r.cLenBuf)) =>
               /\ ConnectFailed(r)
               /\ r.cMsg = <<>>

\* C35: connectTo has invoked its callback at most once on every connection
\* it made, whatever the order of the steps of the handshake and of the
\* 'error' events of the socket: not twice, not with an error after a
\* channel, not with a channel after an error.
C35_ConnectCallsBackOnce ==
    \A i \in Connectors : Len(conns[i].cbs) <= 1

(***************************************************************************)
(* Claims about an established channel                                     *)
(***************************************************************************)
BadPrefix(b) == Len(b) = 4 /\ (ReadUInt32LE(b) = 0 \/ ReadUInt32LE(b) > MAX_MSG_LENGTH)

\* C13: a read() that finds a length prefix of 0 or above 16,777,215 has
\* failed with an error and has taken nothing but the four bytes of the
\* prefix from the connection.
C13_BadPrefixFailsRead ==
    \A k \in 1..Len(receiver.reads) :
        LET rd == receiver.reads[k] IN
        BadPrefix(rd.lenBuf) => rd.pc = "done" /\ rd.err /\ rd.taken = 4

\* C14: a read() or a write() that has failed, with or without a callback,
\* has closed the underlying connection, and had closed it when the error was
\* handed to the callback.
C14_FailureClosesConnection ==
    /\ \A k \in 1..Len(receiver.reads) :
           LET rd == receiver.reads[k] IN
           (rd.pc = "done" /\ rd.err) => rd.closedAtCb /\ receiver.destroyed
    /\ \A k \in 1..Len(sender.calls) :
           LET wr == sender.calls[k] IN
           wr.failed => wr.closed /\ sender.destroyed

\* every write() so far carried a message, nothing failed on the writing
\* side and nobody else sent bytes
OnlyMessagesWritten ==
    /\ receiver.injected = 0
    /\ ~sender.destroyed
    /\ \A k \in 1..Len(sender.calls) :
           sender.calls[k].data.kind = "msg" /\ ~sender.calls[k].failed

\* C15: the k-th read() on the peer's channel yields the k-th message
\* written: every read() that has completed has succeeded with a message
\* equal to the one the write() of the same rank carried.
C15_ReadsYieldWritesInOrder ==
    OnlyMessagesWritten =>
        \A k \in 1..Len(receiver.reads) :
            LET rd == receiver.reads[k] IN
            rd.pc = "done" =>
                /\ ~rd.err /\ ~rd.isNull
                /\ k <= Len(sender.calls)
                /\ rd.type = sender.calls[k].data.type

(***************************************************************************)
(* Claims about the lazy accessors                                         *)
(***************************************************************************)
Succeeded(op) ==
    {c \in AccessCalls : /\ accessors.calls[c].op = op
                         /\ accessors.calls[c].pc = "done"
                         /\ ~accessors.calls[c].err}

\* C16: all successful calls of downloads() have got the same DownloadList,
\* all successful calls of library() the same FileLibrary, and at most one
\* object of either class has been constructed, however the calls overlap.
C16_AccessorsYieldOneInstance ==
    /\ \A c, d \in Succeeded("downloads") :
           accessors.calls[c].result = accessors.calls[d].result
    /\ \A c, d \in Succeeded("library") :
           accessors.calls[c].result = accessors.calls[d].result
    /\ accessors.lists <= 1
    /\ accessors.libraries <= 1

(***************************************************************************)
(* Claims about DownloadList.addByLink                                     *)
(***************************************************************************)
AddCalls == {c \in DOMAIN listCalls : listCalls[c].op = "addByLink"}

\* the positions in the list `items` of the items whose data file is the
\* one the link derives; none if the link is no link or there is no list
HeldFor(items, link) ==
    LET match == RegexMatch(Trim(link)) IN
    IF ~match.ok \/ items.undefined THEN {}
    ELSE {i \in DOMAIN items.list :
            items.list[i].tempFile = TempFileOf(HashOf(match), FileSizeOf(match))}

\* this step is the call addByLink(link)
IsAddByLink(link) ==
    /\ Len(listCalls') = Len(listCalls) + 1
    /\ listCalls'[Len(listCalls')].op = "addByLink"
    /\ listCalls'[Len(listCalls')].link = link

\* call c has completed, its callback called once, without an error
Returned(c) ==
    /\ listCalls[c].pc = "done"
    /\ Len(listCalls[c].cbs) = 1
    /\ listCalls[c].cbs[1].err = ""

\* call c of addByLink has returned an item it created
Created(c) ==
    /\ c \in AddCalls
    /\ Returned(c)
    /\ HeldFor(listCalls[c].heldBefore, listCalls[c].link) = {}

\* C17: a call of addByLink with a link that derives the data file of an item
\* the list holds completes at once, hands that item to the callback without
\* an error, and leaves the files and the items as they were.
C17_AddByLinkReturnsHeldItem ==
    [][\A link \in Links :
          (IsAddByLink(link) /\ HeldFor(_items, link) # {}) =>
              LET call == listCalls'[Len(listCalls')] IN
              /\ call.pc = "done"
              /\ Len(call.cbs) = 1
              /\ call.cbs[1].err = ""
              /\ call.cbs[1].item \in HeldFor(_items, link)
              /\ disk' = disk
              /\ _items' = _items]_vars

\* an item created from one link has been returned for another link of the
\* same content
C17_Witness ==
    \E b, c \in AddCalls :
        /\ b < c
        /\ Created(b)
        /\ Returned(c)
        /\ listCalls[c].link # listCalls[b].link
        /\ listCalls[c].cbs[1].item = listCalls[b].cbs[1].item
        /\ Len(_items.list) = 1

\* C18: every completed call of addByLink with a valid link, made on a list
\* that items() has loaded and that held no item with the derived data file,
\* and in which no file-system operation failed, has handed the callback a
\* new item, the only one the call added, and both its files exist.
C18_AddByLinkCreatesItem ==
    \A c \in AddCalls :
        LET call == listCalls[c]
            match == RegexMatch(Trim(call.link))
        IN  (/\ call.pc = "done"
             /\ match.ok
             /\ ~call.heldBefore.undefined
             /\ HeldFor(call.heldBefore, call.link) = {}
             /\ \A k \in DOMAIN call.cbs : call.cbs[k].err # "EIO")
            => /\ Returned(c)
               /\ call.cbs[1].item = Len(call.heldBefore.list) + 1
               /\ Exists(disk, TempFileOf(HashOf(match), FileSizeOf(match)))
               /\ Exists(disk, MetaFileOf(HashOf(match), FileSizeOf(match)))

\* C19: a call of addByLink with a string the link pattern does not match
\* completes at once, hands the callback the error 'Invalid link format!'
\* and no item, and leaves the files and the items as they were.
C19_InvalidLinkFails ==
    [][\A link \in Links :
          (IsAddByLink(link) /\ ~RegexMatch(Trim(link)).ok) =>
              LET call == listCalls'[Len(listCalls')] IN
              /\ call.pc = "done"
              /\ Len(call.cbs) = 1
              /\ call.cbs[1].err = "Invalid link format!"
              /\ call.cbs[1].item = 0
              /\ disk' = disk
              /\ _items' = _items]_vars

\* a string that is no link has been refused by a list that holds an item
\* and has files
C19_Witness ==
    \E c \in AddCalls :
        /\ listCalls[c].pc = "done"
        /\ listCalls[c].cbs[1].err = "Invalid link format!"
        /\ ~listCalls[c].heldBefore.undefined
        /\ Len(listCalls[c].heldBefore.list) > 0
        /\ disk # {}

\* C20: after a call of addByLink has returned an item it created from a link
\* of size s, the data file is s bytes long, all of them zeros written in
\* blocks of at most 81,920 bytes, and the metadata file holds n descriptors,
\* n the least number with n * 9,728,000 >= s, the i-th with index i - 1 and
\* completed = 0.
C20_FilesOfDeclaredSize ==
    \A c \in AddCalls :
        Created(c) =>
            LET match == RegexMatch(Trim(listCalls[c].link))
                s == FileSizeOf(match)
                tempFile == TempFileOf(HashOf(match), s)
                metaFile == MetaFileOf(HashOf(match), s)
            IN  /\ Exists(disk, tempFile)
                /\ FileAt(disk, tempFile).len = s
                /\ FileAt(disk, tempFile).zeros = s
                /\ FileAt(disk, tempFile).maxBlock <= 81920
                /\ Exists(disk, metaFile)
                /\ LET chunks == FileAt(disk, metaFile).chunks IN
                   /\ Len(chunks) * 9728000 >= s
                   /\ Len(chunks) > 0 => (Len(chunks) - 1) * 9728000 < s
                   /\ \A i \in DOMAIN chunks :
                          chunks[i] = [index |-> i - 1, completed |-> 0]

\* a file of one byte more than a chunk has been created: two descriptors,
\* written in whole blocks and a last block of fewer bytes
C20_Witness ==
    \E c \in AddCalls :
        /\ Created(c)
        /\ listCalls[c].fileSize = 9728001
        /\ Len(FileAt(disk, MetaFileOf(listCalls[c].hash, 9728001)).chunks) = 2
        /\ FileAt(disk, TempFileOf(listCalls[c].hash, 9728001)).maxBlock = 81920

\* a file-system operation of this call has failed
FailedIn(call) ==
    \/ call.err = "EIO"
    \/ \E k \in DOMAIN call.cbs : call.cbs[k].err = "EIO"

\* C21: the step of addByLink in which a file-system operation fails, and the
\* step after it that closes the file, change no file and no item; the call
\* then only closes the file and completes, its callback called once, with
\* the error and no item, and the call has registered no item.
C21_FailureAbortsAddByLink ==
    [][\A c \in AddCalls :
          (listCalls[c].pc # "done" /\ FailedIn(listCalls'[c])) =>
              /\ disk' = disk
              /\ _items' = _items
              /\ listCalls'[c].newItem = 0
              /\ listCalls'[c].pc \in {"close", "done"}
              /\ listCalls'[c].pc = "done" =>
                     /\ Len(listCalls'[c].cbs) = 1
                     /\ listCalls'[c].cbs[1].err = "EIO"
                     /\ listCalls'[c].cbs[1].item = 0]_vars

\* a call has completed with the error of the write of its metadata file:
\* both files exist, the metadata file empty
C21_Witness ==
    \E c \in AddCalls :
        /\ listCalls[c].pc = "done"
        /\ listCalls[c].cbs[1].err = "EIO"
        /\ listCalls[c].fileSize > 0
        /\ Exists(disk, TempFileOf(listCalls[c].hash, listCalls[c].fileSize))
        /\ Exists(disk, MetaFileOf(listCalls[c].hash, listCalls[c].fileSize))
        /\ FileAt(disk, MetaFileOf(listCalls[c].hash, listCalls[c].fileSize)).chunks = <<>>

(***************************************************************************)
(* Claims about DownloadList.items                                         *)
(***************************************************************************)
ItemsCalls == {c \in DOMAIN listCalls : listCalls[c].op = "items"}

\* C22: at most one call of items() has scanned the directory and assigned
\* the list; every other call that completed without an error was answered
\* from the list as it stood.
C22_ItemsScansOnce ==
    Cardinality({c \in ItemsCalls : listCalls[c].scanned}) <= 1

\* C37: no two items of a DownloadList have the same path of a data file,
\* whatever calls of items() and addByLink() were made on it.
C37_DistinctTempFiles ==
    \A i, j \in DOMAIN _items.list :
        i # j => _items.list[i].tempFile # _items.list[j].tempFile

(***************************************************************************)
(* Claims about disposal                                                   *)
(***************************************************************************)
\* C23: once the disposal of a list has nothing left to run, its promise has
\* settled, every item has been disposed once, the list holds the items whose
\* disposal failed and no other, and the promise is rejected if there is
\* such an item and resolved if there is none.
C23_ListDisposalCascades ==
    (disposal.cascade.settled # "none" /\ disposal.cascade.waits = "pending") =>
        /\ disposal.cascade.settled \in {"resolved", "rejected"}
        /\ \A id \in DOMAIN disposal.items : disposal.calls[id] = 1
        /\ disposal._downloads = disposal.cascade.errors
        /\ disposal.cascade.settled = "rejected" <=> Len(disposal.cascade.errors) > 0

\* C24: after dispose() on an object whose disposing() resolves and whose
\* handlers do not throw, isDisposed is true, the object has raised
\* 'isDisposed' once and 'disposed' after it, the first call has completed
\* with success and no later call has completed or raised anything.
C24_DisposeSetsIsDisposed ==
    (/\ disposal.obj.logic = "resolves"
     /\ ~disposal.obj.throwing
     /\ Len(disposal.outcomes) > 0) =>
        /\ disposal.obj.isDisposed
        /\ \E k \in DOMAIN disposal.obj.raised :
               /\ disposal.obj.raised[k] = "isDisposed"
               /\ k = Len(disposal.obj.raised) - 1
               /\ disposal.obj.raised[k + 1] = "disposed"
               /\ \A j \in 1..(k - 1) : disposal.obj.raised[j] = "disposing"
        /\ disposal.outcomes[1] = "resolved"
        /\ \A k \in 2..Len(disposal.outcomes) : disposal.outcomes[k] = "pending"

(***************************************************************************)
(* Claims about FileLibraryCollectionItem.hash                             *)
(***************************************************************************)
\* the calls of hash() that completed, once, with a ContentHash
HashedCalls ==
    {c \in DOMAIN hashItem.calls :
        /\ hashItem.calls[c].pc = "done"
        /\ Len(hashItem.calls[c].cbs) = 1
        /\ ~hashItem.calls[c].cbs[1].err}

RECURSIVE ChunksOf(_)
ChunksOf(content) ==
    IF content = <<>> THEN <<>>
    ELSE <<Take(content, CHUNK_SIZE)>> \o ChunksOf(Drop(content, CHUNK_SIZE))

\* C26: the ContentHash that hash() computes for a file has one chunk for
\* every CHUNK_SIZE bytes of the file and one for the rest, in the order of
\* the file; each chunk has the hash and the size of its bytes, and the full
\* hash is the hash of the hashes of the chunks in that order.
C26_ContentHashOfChunks ==
    \A c \in HashedCalls :
        hashItem.calls[c].computed = 1 =>
            LET content == hashItem.calls[c].file.content
                size == ByteCount(content)
                expected == ChunksOf(content)
                got == hashItem.calls[c].cbs[1]
            IN  /\ Len(got.chunks) = (size + 9728000 - 1) \div 9728000
                /\ Len(got.chunks) = Len(expected)
                /\ \A k \in DOMAIN got.chunks :
                       /\ got.chunks[k].hash = Sha256(expected[k])
                       /\ got.chunks[k].size = ByteCount(expected[k])
                       /\ k < Len(got.chunks) => got.chunks[k].size = 9728000
                /\ got.hash = Sha256([k \in DOMAIN got.chunks |-> got.chunks[k].hash])

RECURSIVE SizeOfChunks(_)
SizeOfChunks(chunks) ==
    IF chunks = <<>> THEN 0 ELSE Head(chunks).size + SizeOfChunks(Tail(chunks))

\* C38: every ContentHash a call of hash() has handed to its callback has
\* its full hash set and a chunk list that covers the file, also when the
\* call follows a computation that failed with a read error.
C38_DeliveredHashIsComplete ==
    \A c \in DOMAIN hashItem.calls :
        \A k \in DOMAIN hashItem.calls[c].cbs :
            LET got == hashItem.calls[c].cbs[k] IN
            ~got.err =>
                /\ got.hash # <<>>
                /\ SizeOfChunks(got.chunks) = ByteCount(hashItem.calls[c].file.content)

RECURSIVE FirstOccurrences(_, _)
FirstOccurrences(l, seen) ==
    IF l = <<>> THEN <<>>
    ELSE LET x == TrimName(Head(l)) IN
         IF x = <<>> \/ x \in seen THEN FirstOccurrences(Tail(l), seen)
         ELSE <<x>> \o FirstOccurrences(Tail(l), seen \cup {x})

\* C28: the share folders of a constructed client are at least one, no two
\* the same, none empty or of white space only; they are the trimmed entries
\* of the list passed in, in the order of their first occurrence, and the
\* one default folder if no list was passed or nothing is left of it.
C28_SharesNormalised ==
    probe.constructed =>
        LET shares == probe._config.folders.shares
            wanted == IF probe.cfg.given /\ probe.cfg.folders /\ probe.cfg.shares
                      THEN FirstOccurrences(probe.cfg.list, {})
                      ELSE <<>>
        IN  /\ Len(shares) >= 1
            /\ \A j, k \in DOMAIN shares : shares[j] = shares[k] => j = k
            /\ \A k \in DOMAIN shares : shares[k] # <<>> /\ TrimName(shares[k]) = shares[k]
            /\ shares = IF wanted = <<>> THEN <<DEFAULT_SHARES>> ELSE wanted

\* a list with a folder twice, once with a space, and another folder and an
\* empty entry in between has become the two folders
C28_Witness ==
    /\ probe.constructed
    /\ probe.cfg.list = <<<<97, 32>>, <<98>>, <<97>>>>
    /\ probe._config.folders.shares = <<<<97>>, <<98>>>>

(***************************************************************************)
(* Claims about FileLibraryCollection.items                                *)
(***************************************************************************)
\* C29: every call of items() that has completed has delivered, without an
\* error, one item for every regular file at any depth below the directory
\* of the collection, and no item twice.
C29_ItemsOfAllFiles ==
    \A c \in DOMAIN collection.calls :
        collection.calls[c].pc = "done" =>
            LET got == collection.calls[c].cbs[1] IN
            /\ ~got.err
            /\ {got.items[k] : k \in DOMAIN got.items}
                   = {e.path : e \in {e \in collection.tree : e.kind = "file"}}
            /\ \A j, k \in DOMAIN got.items : got.items[j] = got.items[k] => j = k

(***************************************************************************)
(* Claims about DeliveryBoy.connect                                        *)
(***************************************************************************)
\* C30: once a call of connect() has nothing left to run, its promise has
\* settled: it is resolved if the connection was established and accepted,
\* and rejected if the connection failed, was not accepted, or the validator
\* failed.
C30_ConnectSettles ==
    \A c \in DOMAIN dboy.calls :
        dboy.calls[c].pc = "idle" =>
            /\ dboy.calls[c].promise # "pending"
            /\ dboy.calls[c].promise = "resolved"
                   <=> dboy.calls[c].emitted = <<"connect.connected">>

\* the servers that listen
Listeners == {s \in DOMAIN dboy.servers : dboy.servers[s].status = "listening"}

\* C39: a DeliveryBoy has at most one listening server open, whatever calls
\* of start() and stop() were made and however their completions interleave;
\* the server it holds is that one; start() called while a server is held
\* has resolved to false and stop() called while none is held has resolved
\* to false.
C39_AtMostOneListener ==
    /\ Cardinality(Listeners) <= 1
    /\ Listeners \subseteq {dboy._server}
    /\ \A c \in DOMAIN dboy.calls :
           LET call == dboy.calls[c] IN
           /\ (call.op = "start" /\ call.held # Null) =>
                  (call.pc = "done" /\ call.promise = "resolved" /\ ~call.value
                   /\ call.server = Null)
           /\ (call.op = "stop" /\ call.held = Null) =>
                  (call.pc = "done" /\ call.promise = "resolved" /\ ~call.value)

(***************************************************************************)
(* Claims about Connection                                                 *)
(***************************************************************************)
\* C31: between two ends whose peer sends nothing else, every readMessage()
\* of the connecting end that has completed has delivered the message the
\* accepting end sent with sendMessage(), whatever the lengths of the random
\* prefixes, and never the hello message of the handshake.
C31_MessageRoundTrip ==
    pair.strays = 0 =>
        \A c \in DOMAIN pair.calls :
            (pair.calls[c].op = "readMessage" /\ pair.calls[c].pc = "done") =>
                /\ pair.calls[c].promise = "resolved"
                /\ pair.calls[c].value = 3

\* C32: neither end of a connection has started its handshake more than
\* once, whatever calls of sendMessage() and readMessage() were made and
\* whenever.
C32_HandshakeOnce ==
    pair.strays = 0 => \A side \in Sides : pair.conn[side].handshakes <= 1

(***************************************************************************)
(* Claims about several connections of one listener                        *)
(***************************************************************************)
OfKind(kind) == {i \in Live : conns[i].kind = kind}

\* the handshake of a connection has come to its end: 'connected' raised, or
\* the listener has closed the connection, or connectTo has given it up
HandshakeEnded(r) ==
    Has(r.lRaised, "connected") \/ r.lClosed \/ r.cDestroyed

\* the stalling peer has got the key and the listener waits for its password
Stalled(r) == r.lpc \in {"rLen", "rPwd"} /\ ~r.lClosed

\* a step on one connection leaves every other connection, the state of the
\* client and its key pair as they are
OneConnectionPerStep ==
    \A i \in 1..Len(conns) :
        conns'[i] # conns[i] =>
            /\ \A j \in 1..Len(conns) : j # i => conns'[j] = conns[j]
            /\ Len(conns') = Len(conns)
            /\ UNCHANGED <<_state, _key, _server>>

\* the next step of the handshake of the connection connectTo made can be
\* taken: a callback of the listener or of connectTo on it is ready to run
NeverBlocked ==
    \A i \in OfKind("client") : ~HandshakeEnded(conns[i]) => ENABLED ClientPeerStep

\* C33: connections are independent.  While another peer stalls at any step
\* of its handshake, the handshake of the connection connectTo made is never
\* held up: until it has come to its end ('connected' raised, unless the
\* listener closed it or connectTo gave it up) its next step can be taken,
\* and it has finitely many steps; no step on one connection changes another
\* connection, the lifecycle state of the client or its key pair; and the key
\* of a connection that raised 'connected' is the key of the client and the
\* password its own connector drew.
C33_ConnectionsIndependent ==
    /\ [][OneConnectionPerStep]_vars
    /\ [](\A i \in OfKind("client") :
              Has(conns[i].lRaised, "connected") =>
                  (conns[i].lKey = _key /\ conns[i].lChan = conns[i].cPwd))
    /\ []NeverBlocked

\* C33 witness: the peer accepted first stalls in the middle of its password,
\* the connection accepted after it has raised 'connected' and connectTo has
\* handed over its channel
C33_Witness ==
    /\ Len(conns) = 2
    /\ conns[1].kind = "rogue" /\ conns[1].lpc = "rPwd" /\ Stalled(conns[1])
    /\ conns[1].lIn # <<>>
    /\ conns[2].kind = "client"
    /\ Has(conns[2].lRaised, "connected")
    /\ conns[2].cbs = <<[err |-> FALSE, chan |-> conns[2].cPwd]>>
    /\ _state = CLIENT_STATE_RUNNING

====
